---- MODULE Spec2Model ----
(***************************************************************************)
(* Session / conversation engine of wda-core: the session lifecycle        *)
(* (SessionAPI), the question flow and free-form side channel              *)
(* (ConversationAPI) and the checkpoint subsystem                          *)
(* (CheckpointStorageProvider), all acting on the file store of            *)
(* LocalStorageProvider.                                                   *)
(*                                                                         *)
(* The store is modelled one directory per variable, each a function from  *)
(* the file's key to its parsed JSON record.  An API call is one action:   *)
(* the handler's whole sequence of store calls.  Every handler takes a     *)
(* parameter `fail`: 0 when every store call succeeds, k when the k-th     *)
(* mutating store call of the handler throws (the calls before it have     *)
(* taken effect, the handler rejects).                                     *)
(***************************************************************************)
EXTENDS Integers, Sequences, FiniteSets, TLC

VARIABLES
    sessions,     \* sessions/{id}.json               : id -> Session
    responses,    \* sessions/{sid}/responses/{id}.json : id -> Response
    freierTalk,   \* sessions/{sid}/freier-talk/{id}.json : id -> FreierTalkEntry
    checkpoints,  \* checkpoints/{sid}/checkpoint-{id}.json : <<sid, id>> -> Checkpoint
    backups,      \* checkpoints/{sid}/{ms}.json      : <<sid, ms>> -> Session
    usedUUIDs,    \* checkpoint ids crypto.randomUUID() has handed out
    now,          \* the clock, in milliseconds
    lastCall,     \* the last API call: its name, arguments and result
    calls         \* submitAnswer calls running between their awaits: caller -> locals

vars == <<sessions, responses, freierTalk, checkpoints, backups, usedUUIDs, now, lastCall,
          calls>>

store == <<sessions, responses, freierTalk, checkpoints, backups>>

----------------------------------------------------------------------------
(* Bounds of the model *)

MaxSessions == 1
MaxResponses == 2
MaxFreierTalks == 2
MaxTranscript == 2
MaxTurns == 3
MaxListed == 2
MaxRules == 2
MaxPieces == 3
MaxCheckpoints == 2
MaxTime == 1
MaxLongRun == 11
MaxCallers == 2

(* Program constants *)

\* `null` of a JSON record (Session.completedAt, FreierTalkEntry.endedAt)
Null == -1

\* createSession: totalQuestions: params.totalQuestions || 10
DefaultTotalQuestions == 10

\* ConversationAPI: `const total = 10` and `currentQuestionIndex / 10`
MockTotal == 10

----------------------------------------------------------------------------
(* Identifiers.  A well-formed session id ("session-" + UUID v4) is a      *)
(* positive number, 0 is a malformed id.  Fresh ids of sessions, responses *)
(* and free-form entries are taken in order (only their distinctness is    *)
(* observable); a checkpoint's id is any unused one, because file names    *)
(* derived from it are sorted.                                             *)

SessionIds == 1..MaxSessions

\* an id no createSession ever returns: well-formed but unknown
UnknownSessionId == MaxSessions + 1

MalformedSessionId == 0

SessionIdInputs == SessionIds \cup {UnknownSessionId}

UUIDs == 1..(MaxCheckpoints + 1)

isValidSessionId(sessionId) == sessionId > 0

FreshId(f) == Cardinality(DOMAIN f) + 1

Range(s) == {s[i] : i \in DOMAIN s}

\* Array.prototype.includes
includes(arr, x) == \E i \in DOMAIN arr : arr[i] = x

\* Array.prototype.push
push(arr, x) == Append(arr, x)

\* Math.round(n / d * 100) for integers n >= 0, d > 0: floor(x + 0.5)
RoundPercent(n, d) == (200 * n + d) \div (2 * d)

\* writeJSON(path, data): create or overwrite the file at `key`
writeJSON(dir, key, data) == [k \in DOMAIN dir \cup {key} |-> IF k = key THEN data ELSE dir[k]]

\* fs.unlink
delete(dir, key) == [k \in DOMAIN dir \ {key} |-> dir[k]]

----------------------------------------------------------------------------
(* models/Session.ts *)

Modes == {"quick", "standard", "deep"}

createSessionEntity(id, projectId, name, mode) ==
    [ id |-> id,
      projectId |-> projectId,
      name |-> name,
      mode |-> mode,
      status |-> "not_started",
      startedAt |-> now,
      completedAt |-> Null,
      updatedAt |-> now,
      selectedPackIds |-> <<>>,
      currentQuestionIndex |-> 0,
      totalQuestions |-> DefaultTotalQuestions,
      progress |-> 0,
      responseIds |-> <<>>,
      freierTalkIds |-> <<>>,
      metadata |-> <<>> ]

\* The result of a handler: the store it leaves and what it returns.
Result(s, r, f, c, b, outcome, ret) ==
    [ sessions |-> s, responses |-> r, freierTalk |-> f, checkpoints |-> c,
      backups |-> b, outcome |-> outcome, ret |-> ret ]

\* A handler that throws before any store write.
Reject(message) ==
    Result(sessions, responses, freierTalk, checkpoints, backups, message, Null)

\* A store call that throws (EIO, ENOSPC, EACCES ...)
StoreError == "store error"

\* A raw rejection of fs.readFile on a missing file (loadSession is not wrapped)
ENOENT == "ENOENT: no such file or directory"

----------------------------------------------------------------------------
(* SessionStorageProvider *)

saveSession(dir, session) == writeJSON(dir, session.id, session)

\* saveResponse(response).  Store calls that can throw: 1 writeJSON(response
\* file), 2 saveSession.  Yields the directories it leaves.
saveResponse(response, fail) ==
    LET loaded == sessions[response.sessionId]
        session == IF includes(loaded.responseIds, response.id) THEN loaded
                   ELSE [loaded EXCEPT !.responseIds = push(@, response.id)]
        r1 == writeJSON(responses, response.id, response)
    IN  IF fail = 1 THEN [thrown |-> TRUE, responses |-> responses, sessions |-> sessions]
        ELSE IF fail = 2 THEN [thrown |-> TRUE, responses |-> r1, sessions |-> sessions]
        ELSE [thrown |-> FALSE, responses |-> r1, sessions |-> saveSession(sessions, session)]

\* saveFreierTalkEntry(entry).  Store calls that can throw: 1 writeJSON(entry
\* file), 2 saveSession.
saveFreierTalkEntry(entry, fail) ==
    LET loaded == sessions[entry.sessionId]
        session == IF includes(loaded.freierTalkIds, entry.id) THEN loaded
                   ELSE [loaded EXCEPT !.freierTalkIds = push(@, entry.id)]
        f1 == writeJSON(freierTalk, entry.id, entry)
    IN  IF fail = 1 THEN [thrown |-> TRUE, freierTalk |-> freierTalk, sessions |-> sessions]
        ELSE IF fail = 2 THEN [thrown |-> TRUE, freierTalk |-> f1, sessions |-> sessions]
        ELSE [thrown |-> FALSE, freierTalk |-> f1, sessions |-> saveSession(sessions, session)]

\* loadFreierTalkEntries(sessionId): the files of sessions/{sessionId}/freier-talk
loadFreierTalkEntries(sessionId) ==
    {freierTalk[k] : k \in {j \in DOMAIN freierTalk : freierTalk[j].sessionId = sessionId}}

----------------------------------------------------------------------------
(* CheckpointStorageProvider *)

\* checkpoints/${session.id}/${Date.now()}.json
backupPath(sessionId, ms) == <<sessionId, ms>>

\* checkpoints/${session.id}/checkpoint-${checkpoint.id}.json
checkpointPath(sessionId, id) == <<sessionId, id>>

\* stats.size of the backup file: grows with the arrays the session holds
fileSize(session) == 15 + Len(session.responseIds) + Len(session.freierTalkIds)

\* (mutant) the descriptor is written first, the backup after it:
\* store calls 1 writeJSON(descriptor), 2 writeJSON(backup), 3 stat
createCheckpoint_descriptorFirst(session, reason, id, fail) ==
    LET checkpoint ==
          [ id |-> id,
            sessionId |-> session.id,
            createdAt |-> now,
            sessionSnapshot |->
              [ currentQuestionIndex |-> session.currentQuestionIndex,
                progress |-> session.progress,
                responseCount |-> Len(session.responseIds),
                freierTalkCount |-> Len(session.freierTalkIds) ],
            reason |-> reason,
            backupPath |-> backupPath(session.id, now),
            metadata |-> [fileSize |-> fileSize(session)] ]
        c1 == writeJSON(checkpoints, checkpointPath(session.id, id), checkpoint)
    IN  IF fail = 1 THEN
          [thrown |-> TRUE, backups |-> backups, checkpoints |-> checkpoints, checkpoint |-> checkpoint]
        ELSE IF fail = 2 THEN
          [thrown |-> TRUE, backups |-> backups, checkpoints |-> c1, checkpoint |-> checkpoint]
        ELSE
          [ thrown |-> fail = 3,
            backups |-> writeJSON(backups, checkpoint.backupPath, session),
            checkpoints |-> c1, checkpoint |-> checkpoint ]

\* (mutant) the snapshot records the cursor of the question to come
createCheckpoint_snapshotsNextCursor(session, reason, id, fail) ==
    LET checkpoint ==
          [ id |-> id,
            sessionId |-> session.id,
            createdAt |-> now,
            sessionSnapshot |->
              [ currentQuestionIndex |-> session.currentQuestionIndex + 1,
                progress |-> session.progress,
                responseCount |-> Len(session.responseIds),
                freierTalkCount |-> Len(session.freierTalkIds) ],
            reason |-> reason,
            backupPath |-> backupPath(session.id, now),
            metadata |-> [fileSize |-> fileSize(session)] ]
        b1 == writeJSON(backups, checkpoint.backupPath, session)
    IN  IF fail = 1 THEN
          [thrown |-> TRUE, backups |-> backups, checkpoints |-> checkpoints, checkpoint |-> checkpoint]
        ELSE IF fail \in {2, 3} THEN
          [thrown |-> TRUE, backups |-> b1, checkpoints |-> checkpoints, checkpoint |-> checkpoint]
        ELSE
          [ thrown |-> FALSE, backups |-> b1,
            checkpoints |-> writeJSON(checkpoints, checkpointPath(session.id, id), checkpoint),
            checkpoint |-> checkpoint ]

\* createCheckpoint(session, reason) with crypto.randomUUID() = id.
\* Store calls that can throw: 1 writeJSON(backup), 2 stat, 3 writeJSON(descriptor).
createCheckpoint(session, reason, id, fail) ==
    LET checkpoint ==
          [ id |-> id,
            sessionId |-> session.id,
            createdAt |-> now,
            sessionSnapshot |->
              [ currentQuestionIndex |-> session.currentQuestionIndex,
                progress |-> session.progress,
                responseCount |-> Len(session.responseIds),
                freierTalkCount |-> Len(session.freierTalkIds) ],
            reason |-> reason,
            backupPath |-> backupPath(session.id, now),
            metadata |-> [fileSize |-> fileSize(session)] ]
        b1 == writeJSON(backups, checkpoint.backupPath, session)
    IN  IF fail = 1 THEN
          [thrown |-> TRUE, backups |-> backups, checkpoints |-> checkpoints, checkpoint |-> checkpoint]
        ELSE IF fail \in {2, 3} THEN
          [thrown |-> TRUE, backups |-> b1, checkpoints |-> checkpoints, checkpoint |-> checkpoint]
        ELSE
          [ thrown |-> FALSE, backups |-> b1,
            checkpoints |-> writeJSON(checkpoints, checkpointPath(session.id, id), checkpoint),
            checkpoint |-> checkpoint ]

\* (mutant) restore re-reads the live session file instead of the backup
restoreSession_readsLiveSession(dir, checkpoint) == sessions[checkpoint.sessionId]

\* restoreSession(checkpoint): readJSON(checkpoint.backupPath)
restoreSession(dir, checkpoint) == dir[checkpoint.backupPath]

\* the checkpoint-*.json files of checkpoints/${sessionId}
checkpointFiles(dir, sessionId) == {k \in DOMAIN dir : k[1] = sessionId}

\* loadLatestCheckpoint(sessionId): the file names sorted and reversed, the
\* first one read; null (the empty set) without files or when list throws.
\* The names are checkpoint-<uuid>.json, so their order is that of the uuids.
loadLatestCheckpoint(dir, sessionId) ==
    LET files == checkpointFiles(dir, sessionId) IN
    IF files = {} THEN {}
    ELSE {dir[CHOOSE k \in files : \A j \in files : j[2] <= k[2]]}

\* sort((a, b) => b.createdAt - a.createdAt)
SortedByCreatedAtDesc(list) ==
    \A i, j \in 1..Len(list) : i < j => list[i].createdAt >= list[j].createdAt

\* listCheckpoints(sessionId): the descriptors, most recent first.  readdir
\* gives the files in no specified order and the sort is stable, so descriptors
\* of one createdAt come in any order: the arrays the call can return.
\* (mutant) the descriptors of every session's directory are read
listCheckpoints_everyDirectory(dir, sessionId) ==
    LET files == DOMAIN dir
        n == Cardinality(files) IN
    { list \in [1..n -> {dir[k] : k \in files}] :
        /\ \A k \in files : \E i \in 1..n : list[i] = dir[k]
        /\ SortedByCreatedAtDesc(list) }

listCheckpoints(dir, sessionId) ==
    LET files == checkpointFiles(dir, sessionId)
        n == Cardinality(files) IN
    { list \in [1..n -> {dir[k] : k \in files}] :
        /\ \A k \in files : \E i \in 1..n : list[i] = dir[k]
        /\ SortedByCreatedAtDesc(list) }

\* slice(keepCount)
slice(list, start) == SubSeq(list, start + 1, Len(list))

\* the loop of cleanupCheckpoints over toDelete: delete(backupPath), then
\* delete(checkpointPath); fs.unlink of a file that is not there throws
RECURSIVE deleteCheckpoints(_, _, _)
deleteCheckpoints(toDelete, b, c) ==
    IF toDelete = <<>> THEN [thrown |-> FALSE, backups |-> b, checkpoints |-> c]
    ELSE LET checkpoint == Head(toDelete) IN
      IF checkpoint.backupPath \notin DOMAIN b
        THEN [thrown |-> TRUE, backups |-> b, checkpoints |-> c]
      ELSE deleteCheckpoints(Tail(toDelete), delete(b, checkpoint.backupPath),
                             delete(c, checkpointPath(checkpoint.sessionId, checkpoint.id)))

\* cleanupCheckpoints(sessionId, keepCount), listCheckpoints returning `list`
cleanupCheckpoints(sessionId, keepCount, list) ==
    LET done == deleteCheckpoints(slice(list, keepCount), backups, checkpoints) IN
    Result(sessions, responses, freierTalk, done.checkpoints, done.backups,
           IF done.thrown THEN ENOENT ELSE "ok", Null)

----------------------------------------------------------------------------
(* SessionAPI *)

\* A string offered as a uuid, by what the regex of isValidUUID looks at:
\* whether it is non-empty, whether it is 8-4-4-4-12 hex digits, its version
\* digit (the first of the third group) and its variant digit (the first of
\* the fourth group)
UuidText(present, hex, version, variant) ==
    [present |-> present, hex |-> hex, version |-> version, variant |-> variant]

ValidProjectId == UuidText(TRUE, TRUE, 4, 8)

NotAUuid == UuidText(TRUE, FALSE, 0, 0)

EmptyText == UuidText(FALSE, FALSE, 0, 0)

\* /^[0-9a-f]{8}-[0-9a-f]{4}-4[0-9a-f]{3}-[89ab][0-9a-f]{3}-[0-9a-f]{12}$/i
isValidUUID(uuid) ==
    uuid.present /\ uuid.hex /\ uuid.version = 4 /\ uuid.variant \in {8, 9, 10, 11}

\* request.modelConfig.temperature, in tenths; an optional number is the
\* empty set when undefined and a singleton otherwise
temperatureOutOfRange(t) == \E v \in t : v < 0 \/ v > 10

maxTokensOutOfRange(m) == \E v \in m : v < 100 \/ v > 4000

\* (mutant) the bounds of temperature are taken as exclusive
createSession_exclusiveTemperature(request, fail) ==
    IF ~request.projectId.present THEN Reject("projectId is required")
    ELSE IF ~isValidUUID(request.projectId) THEN Reject("Invalid projectId format")
    ELSE IF request.mode \notin Modes THEN Reject("Invalid mode")
    ELSE IF \E v \in request.temperature : v <= 0 \/ v >= 10
      THEN Reject("Temperature must be between 0.0 and 1.0")
    ELSE IF maxTokensOutOfRange(request.maxTokens)
      THEN Reject("maxTokens must be between 100 and 4000")
    ELSE LET session == createSessionEntity(FreshId(sessions), request.projectId,
                                            "Session", request.mode) IN
      IF fail = 1 THEN Reject(StoreError)
      ELSE Result(saveSession(sessions, session), responses, freierTalk, checkpoints,
                  backups, "ok", session.id)

createSession(request, fail) ==
    IF ~request.projectId.present THEN Reject("projectId is required")
    ELSE IF ~isValidUUID(request.projectId) THEN Reject("Invalid projectId format")
    ELSE IF request.mode \notin Modes THEN Reject("Invalid mode")
    ELSE IF temperatureOutOfRange(request.temperature)
      THEN Reject("Temperature must be between 0.0 and 1.0")
    ELSE IF maxTokensOutOfRange(request.maxTokens)
      THEN Reject("maxTokens must be between 100 and 4000")
    ELSE LET session == createSessionEntity(FreshId(sessions), request.projectId,
                                            "Session", request.mode) IN
      IF fail = 1 THEN Reject(StoreError)
      ELSE Result(saveSession(sessions, session), responses, freierTalk, checkpoints,
                  backups, "ok", session.id)

\* (mutant) a paused session is started again instead of resumed
startSession_alsoFromPaused(sessionId, fail) ==
    IF sessionId \notin DOMAIN sessions THEN Reject("Session not found")
    ELSE LET session == sessions[sessionId] IN
      IF session.status \notin {"not_started", "paused"} THEN Reject("Session already started")
      ELSE LET s1 == [session EXCEPT !.status = "in_progress", !.updatedAt = now] IN
        IF fail = 1 THEN Reject(StoreError)
        ELSE Result(saveSession(sessions, s1), responses, freierTalk, checkpoints,
                    backups, "ok", Null)

startSession(sessionId, fail) ==
    IF sessionId \notin DOMAIN sessions THEN Reject("Session not found")
    ELSE LET session == sessions[sessionId] IN
      IF session.status # "not_started" THEN Reject("Session already started")
      ELSE LET s1 == [session EXCEPT !.status = "in_progress", !.updatedAt = now] IN
        IF fail = 1 THEN Reject(StoreError)
        ELSE Result(saveSession(sessions, s1), responses, freierTalk, checkpoints,
                    backups, "ok", Null)

\* (mutant) the id format is not checked before the session is loaded
resumeSession_withoutFormatCheck(sessionId, fail) ==
    IF sessionId \notin DOMAIN sessions THEN Reject("Session not found")
    ELSE LET session == sessions[sessionId] IN
      IF session.status # "paused" THEN Reject("Session is not paused")
      ELSE LET s1 == [session EXCEPT !.status = "in_progress", !.updatedAt = now] IN
        IF fail = 1 THEN Reject(StoreError)
        ELSE Result(saveSession(sessions, s1), responses, freierTalk, checkpoints,
                    backups, "ok",
                    [answered |-> Len(s1.responseIds)])

\* (mutant) the resumed session goes back to the cursor of its last checkpoint
resumeSession_fromCheckpoint(sessionId, fail) ==
    IF ~isValidSessionId(sessionId) THEN Reject("Invalid sessionId format")
    ELSE IF sessionId \notin DOMAIN sessions THEN Reject("Session not found")
    ELSE LET session == sessions[sessionId] IN
      IF session.status # "paused" THEN Reject("Session is not paused")
      ELSE LET latest == loadLatestCheckpoint(checkpoints, sessionId)
               s1 == [session EXCEPT
                        !.status = "in_progress", !.updatedAt = now,
                        !.currentQuestionIndex =
                           IF latest = {} THEN @
                           ELSE (CHOOSE cp \in latest : TRUE).sessionSnapshot.currentQuestionIndex]
           IN
        IF fail = 1 THEN Reject(StoreError)
        ELSE Result(saveSession(sessions, s1), responses, freierTalk, checkpoints,
                    backups, "ok",
                    [answered |-> Len(s1.responseIds)])

resumeSession(sessionId, fail) ==
    IF ~isValidSessionId(sessionId) THEN Reject("Invalid sessionId format")
    ELSE IF sessionId \notin DOMAIN sessions THEN Reject("Session not found")
    ELSE LET session == sessions[sessionId] IN
      IF session.status # "paused" THEN Reject("Session is not paused")
      ELSE LET s1 == [session EXCEPT !.status = "in_progress", !.updatedAt = now] IN
        IF fail = 1 THEN Reject(StoreError)
        ELSE Result(saveSession(sessions, s1), responses, freierTalk, checkpoints,
                    backups, "ok",
                    [answered |-> Len(s1.responseIds)])

\* (mutant) the status is flipped and saved first, the checkpoint taken after:
\* store calls 1 saveSession, 2..4 those of createCheckpoint
pauseSession_flipsStatusFirst(sessionId, id, fail) ==
    IF sessionId \notin DOMAIN sessions THEN Reject("Session not found")
    ELSE LET session == sessions[sessionId] IN
      IF session.status = "paused" THEN Reject("Session is already paused")
      ELSE IF session.status = "abandoned" THEN Reject("Cannot pause abandoned session")
      ELSE IF session.status = "completed" THEN Reject("Cannot pause completed session")
      ELSE LET s1 == [session EXCEPT !.status = "paused", !.updatedAt = now]
               cp == createCheckpoint(session, "auto_save", id, IF fail = 0 THEN 0 ELSE fail - 1) IN
        IF fail = 1 THEN Reject(StoreError)
        ELSE IF cp.thrown THEN
          Result(saveSession(sessions, s1), responses, freierTalk, cp.checkpoints,
                 cp.backups, StoreError, Null)
        ELSE
          Result(saveSession(sessions, s1), responses, freierTalk, cp.checkpoints,
                 cp.backups, "ok", Null)

\* (mutant) a failed checkpoint is swallowed and the session paused anyway
pauseSession_swallowsCheckpointError(sessionId, id, fail) ==
    IF sessionId \notin DOMAIN sessions THEN Reject("Session not found")
    ELSE LET session == sessions[sessionId] IN
      IF session.status = "paused" THEN Reject("Session is already paused")
      ELSE IF session.status = "abandoned" THEN Reject("Cannot pause abandoned session")
      ELSE IF session.status = "completed" THEN Reject("Cannot pause completed session")
      ELSE LET cp == createCheckpoint(session, "auto_save", id, fail)
               s1 == [session EXCEPT !.status = "paused", !.updatedAt = now] IN
        IF fail = 4 THEN
          Result(sessions, responses, freierTalk, cp.checkpoints, cp.backups,
                 StoreError, Null)
        ELSE
          Result(saveSession(sessions, s1), responses, freierTalk, cp.checkpoints,
                 cp.backups, "ok", Null)

\* Store calls that can throw: 1..3 those of createCheckpoint, 4 saveSession.
pauseSession(sessionId, id, fail) ==
    IF sessionId \notin DOMAIN sessions THEN Reject("Session not found")
    ELSE LET session == sessions[sessionId] IN
      IF session.status = "paused" THEN Reject("Session is already paused")
      ELSE IF session.status = "abandoned" THEN Reject("Cannot pause abandoned session")
      ELSE IF session.status = "completed" THEN Reject("Cannot pause completed session")
      ELSE LET cp == createCheckpoint(session, "auto_save", id, fail)
               s1 == [session EXCEPT !.status = "paused", !.updatedAt = now] IN
        IF cp.thrown THEN
          Result(sessions, responses, freierTalk, cp.checkpoints, cp.backups,
                 StoreError, Null)
        ELSE IF fail = 4 THEN
          Result(sessions, responses, freierTalk, cp.checkpoints, cp.backups,
                 StoreError, Null)
        ELSE
          Result(saveSession(sessions, s1), responses, freierTalk, cp.checkpoints,
                 cp.backups, "ok", Null)

\* (mutant) abandoning clears the answers the session refers to
abandonSession_dropsResponseIds(sessionId, fail) ==
    IF sessionId \notin DOMAIN sessions THEN Reject("Session not found")
    ELSE LET session == sessions[sessionId] IN
      IF session.status = "abandoned" THEN Reject("Session is already abandoned")
      ELSE LET s1 == [session EXCEPT !.status = "abandoned", !.updatedAt = now,
                                     !.responseIds = <<>>] IN
        IF fail = 1 THEN Reject(StoreError)
        ELSE Result(saveSession(sessions, s1), responses, freierTalk, checkpoints,
                    backups, "ok", Null)

abandonSession(sessionId, fail) ==
    IF sessionId \notin DOMAIN sessions THEN Reject("Session not found")
    ELSE LET session == sessions[sessionId] IN
      IF session.status = "abandoned" THEN Reject("Session is already abandoned")
      ELSE LET s1 == [session EXCEPT !.status = "abandoned", !.updatedAt = now] IN
        IF fail = 1 THEN Reject(StoreError)
        ELSE Result(saveSession(sessions, s1), responses, freierTalk, checkpoints,
                    backups, "ok", Null)

\* (mutant) a paused session can be completed as well
completeSession_alsoFromPaused(sessionId, fail) ==
    IF sessionId \notin DOMAIN sessions THEN Reject("Session not found")
    ELSE LET session == sessions[sessionId] IN
      IF session.status \notin {"in_progress", "paused"}
        THEN Reject("Session must be in_progress to complete")
      ELSE LET s1 == [session EXCEPT !.status = "completed", !.completedAt = now,
                                     !.updatedAt = now, !.progress = 100] IN
        IF fail = 1 THEN Reject(StoreError)
        ELSE Result(saveSession(sessions, s1), responses, freierTalk, checkpoints,
                    backups, "ok", Null)

completeSession(sessionId, fail) ==
    IF sessionId \notin DOMAIN sessions THEN Reject("Session not found")
    ELSE LET session == sessions[sessionId] IN
      IF session.status # "in_progress"
        THEN Reject("Session must be in_progress to complete")
      ELSE LET s1 == [session EXCEPT !.status = "completed", !.completedAt = now,
                                     !.updatedAt = now, !.progress = 100] IN
        IF fail = 1 THEN Reject(StoreError)
        ELSE Result(saveSession(sessions, s1), responses, freierTalk, checkpoints,
                    backups, "ok", Null)

----------------------------------------------------------------------------
(* ValidationEngine.  An answer is a JavaScript value: its kind (null,       *)
(* undefined, string, number, NaN, array) with its text (string), number or  *)
(* items (array of strings); a question carries its type, the required flag, *)
(* optional length bounds, the union of its option lists and optional scale  *)
(* bounds (an optional value is the empty set when absent).                  *)

\* typeof answer
typeofAnswer(answer) ==
    IF answer.type \in {"null", "array"} THEN "object"
    ELSE IF answer.type = "NaN" THEN "number"
    ELSE answer.type

\* (mutant) the empty string counts as an answer
isMissing_acceptsEmptyString(answer) ==
    answer.type \in {"null", "undefined"}

\* answer === null || answer === undefined || answer === ''
isMissing(answer) ==
    \/ answer.type \in {"null", "undefined"}
    \/ answer.type = "string" /\ answer.text = ""

\* answer.length: of a string or an array; undefined for a number, and every
\* comparison with undefined is false
lengthOf(answer) ==
    IF answer.type = "string" THEN {Len(answer.text)}
    ELSE IF answer.type = "array" THEN {Len(answer.items)}
    ELSE {}

\* a limit that is truthy: present and not 0
truthy(limit) == {m \in limit : m # 0}

\* answer.length of null or undefined throws a TypeError; the property is read
\* only behind a truthy minLength or maxLength
lengthThrows(answer, question) ==
    /\ answer.type \in {"null", "undefined"}
    /\ truthy(question.minLength) \cup truthy(question.maxLength) # {}

\* The strings the relational operators read as numbers; any other is NaN
NumericTexts == ("" :> 0) @@ ("3" :> 3) @@ ("6" :> 6)

\* ToNumber(answer), as < and > apply it to an operand compared with a
\* number: the empty set is NaN
toNumber(answer) ==
    IF answer.type = "number" THEN {answer.num}
    ELSE IF answer.type = "null" THEN {0}
    ELSE IF answer.type = "string" THEN
      IF answer.text \in DOMAIN NumericTexts THEN {NumericTexts[answer.text]} ELSE {}
    ELSE IF answer.type = "array" THEN
      IF answer.items = <<>> THEN {0}
      ELSE IF Len(answer.items) = 1 /\ answer.items[1] \in DOMAIN NumericTexts
        THEN {NumericTexts[answer.items[1]]}
      ELSE {}
    ELSE {}

\* answer < min || answer > max: false whenever the answer converts to NaN
outOfRange(answer, scale) ==
    \E n \in toNumber(answer) : n < scale.min \/ n > scale.max

\* An error message: its text and the values interpolated into it
Error(text, args) == [text |-> text, args |-> args]

NoError == Error("", <<>>)

SelectErrors(candidates) == SelectSeq(candidates, LAMBDA e : e # NoError)

\* the errors of the switch on question.type
typeErrors(answer, question) ==
    IF question.type = "text" THEN SelectErrors(<<
         IF typeofAnswer(answer) # "string" THEN Error("Answer type mismatch", <<>>)
           ELSE NoError,
         IF \E n \in lengthOf(answer) : \E m \in truthy(question.minLength) : n < m
           THEN Error("Answer must be at least ${minLength} characters",
                      <<CHOOSE m \in question.minLength : TRUE>>)
           ELSE NoError,
         IF \E n \in lengthOf(answer) : \E m \in truthy(question.maxLength) : n > m
           THEN Error("Answer must be at most ${maxLength} characters",
                      <<CHOOSE m \in question.maxLength : TRUE>>)
           ELSE NoError >>)
    ELSE IF question.type = "number" THEN SelectErrors(<<
         IF typeofAnswer(answer) # "number" THEN Error("Answer type mismatch", <<>>)
           ELSE NoError >>)
    ELSE IF question.type = "single_choice" THEN SelectErrors(<<
         IF typeofAnswer(answer) # "string" THEN Error("Answer type mismatch", <<>>)
           ELSE NoError,
         IF \E options \in question.options :
              ~(answer.type = "string" /\ answer.text \in options)
           THEN Error("Answer must be one of the provided options", <<>>) ELSE NoError >>)
    ELSE IF question.type = "multiple_choice" THEN SelectErrors(<<
         IF answer.type # "array" THEN Error("Answer type mismatch", <<>>) ELSE NoError,
         IF \E options \in question.options :
              answer.type = "array" /\ \E i \in DOMAIN answer.items : answer.items[i] \notin options
           THEN Error("All answers must be from provided options", <<>>) ELSE NoError >>)
    ELSE IF question.type = "scale" THEN SelectErrors(<<
         IF typeofAnswer(answer) # "number" THEN Error("Answer type mismatch", <<>>)
           ELSE NoError,
         IF \E scale \in question.scale : outOfRange(answer, scale)
           THEN LET scale == CHOOSE s \in question.scale : TRUE IN
                Error("Answer must be between ${min} and ${max}", <<scale.min, scale.max>>)
           ELSE NoError >>)
    ELSE <<>>

\* validateAnswer(answer, question): the ValidationResult, or thrown when the
\* call ends in a TypeError
validateAnswer(answer, question) ==
    IF question.required /\ isMissing(answer)
      THEN [valid |-> FALSE, errors |-> <<Error("Answer is required", <<>>)>>,
            thrown |-> FALSE]
    ELSE IF question.type = "text" /\ lengthThrows(answer, question)
      THEN [valid |-> FALSE, errors |-> <<>>, thrown |-> TRUE]
    ELSE LET errors == typeErrors(answer, question) IN
      [valid |-> Len(errors) = 0, errors |-> errors, thrown |-> FALSE]

----------------------------------------------------------------------------
(* Text.  A string is the sequence of its characters, so that includes,      *)
(* trim and toLowerCase are computed character by character.                 *)

\* the upper-case letters and what toLowerCase makes of them
UpperToLower ==
      ("A" :> "a") @@ ("B" :> "b") @@ ("C" :> "c") @@ ("D" :> "d") @@ ("E"
      :> "e") @@ ("F" :> "f") @@ ("G" :> "g") @@ ("H" :> "h") @@ ("I" :>
      "i") @@ ("J" :> "j") @@ ("K" :> "k") @@ ("L" :> "l") @@ ("M" :> "m")
      @@ ("N" :> "n") @@ ("O" :> "o") @@ ("P" :> "p") @@ ("Q" :> "q") @@
      ("R" :> "r") @@ ("S" :> "s") @@ ("T" :> "t") @@ ("U" :> "u") @@ ("V"
      :> "v") @@ ("W" :> "w") @@ ("X" :> "x") @@ ("Y" :> "y") @@ ("Z" :>
      "z")

\* String.prototype.toLowerCase
toLowerCase(text) ==
    [i \in DOMAIN text |->
       IF text[i] \in DOMAIN UpperToLower THEN UpperToLower[text[i]] ELSE text[i]]

\* String.prototype.includes: `part` occurs in `text` as a substring
includesText(text, part) ==
    \E i \in 1..(Len(text) - Len(part) + 1) : SubSeq(text, i, i + Len(part) - 1) = part

\* String.prototype.trim, for texts whose only white space is the blank
RECURSIVE trimStart(_)
trimStart(text) ==
    IF text # <<>> /\ Head(text) = " " THEN trimStart(Tail(text)) ELSE text

RECURSIVE trimEnd(_)
trimEnd(text) ==
    IF text # <<>> /\ text[Len(text)] = " " THEN trimEnd(SubSeq(text, 1, Len(text) - 1))
    ELSE text

trim(text) == trimEnd(trimStart(text))

----------------------------------------------------------------------------
(* ValidationEngine: follow-up detection.  A rule carries its condition and, *)
(* each optional (the empty set when absent), a threshold, a keyword list    *)
(* and the follow-up question bound to it.                                   *)

DefaultMinLength == 20

\* detectAnswerTooShort(answer, minLength = 20)
detectAnswerTooShort(answer, threshold) ==
    LET minLength == IF threshold = {} THEN DefaultMinLength
                     ELSE CHOOSE m \in threshold : TRUE IN
    Len(trim(answer)) < minLength

vagueKeywords ==
    { <<"d", "e", "p", "e", "n", "d", "s">>,
      <<"m", "a", "y", "b", "e">>,
      <<"s", "o", "m", "e", "t", "i", "m", "e", "s">>,
      <<"i", "t", " ", "d", "e", "p", "e", "n", "d", "s">>,
      <<"n", "o", "t", " ", "s", "u", "r", "e">>,
      <<"d", "u", "n", "n", "o">>,
      <<"k", "o", "m", "m", "t", " ", "d", "r", "a", "u", "f", " ", "a", "n">>,
      <<"v", "i", "e", "l", "l", "e", "i", "c", "h", "t">>,
      <<"m", "a", "n", "c", "h", "m", "a", "l">>,
      <<"w", "e", "i", "ß", " ", "n", "i", "c", "h", "t">> }

detectVagueKeywords(answer) ==
    \E keyword \in vagueKeywords : includesText(toLowerCase(answer), keyword)

negativeKeywords ==
    { <<"n", "o">>,
      <<"n", "e", "i", "n">>,
      <<"n", "o", "t">>,
      <<"n", "i", "c", "h", "t">>,
      <<"n", "e", "v", "e", "r">>,
      <<"n", "i", "e">>,
      <<"d", "o", "n", "'", "t">>,
      <<"d", "o", "e", "s", "n", "'", "t">> }

detectNegativeAnswer(answer) ==
    \E keyword \in negativeKeywords : includesText(toLowerCase(answer), keyword)

\* the switch on rule.condition: whether the rule's condition is met
triggeredBy(rule, answer) ==
    IF rule.condition = "answer_too_short" THEN detectAnswerTooShort(answer, rule.threshold)
    ELSE IF rule.condition = "answer_too_vague" THEN detectVagueKeywords(answer)
    ELSE IF rule.condition = "contains_keywords" THEN
      \E keywords \in rule.keywords : \E i \in DOMAIN keywords :
         includesText(toLowerCase(answer), toLowerCase(keywords[i]))
    ELSE IF rule.condition = "answer_negative" THEN detectNegativeAnswer(answer)
    ELSE FALSE

NotTriggered == [triggered |-> FALSE, reason |-> "", followUpQuestion |-> {}]

\* detectFollowUpTrigger(answer, question), question.followUpRules being
\* `rules`: the loop returns at the first rule that is triggered and has a
\* followUpQuestion
RECURSIVE detectFollowUpTrigger(_, _)
detectFollowUpTrigger(answer, rules) ==
    IF rules = <<>> THEN NotTriggered
    ELSE LET rule == Head(rules) IN
      IF triggeredBy(rule, answer) /\ rule.followUpQuestion # {}
        THEN [triggered |-> TRUE, reason |-> rule.condition,
              followUpQuestion |-> rule.followUpQuestion]
      ELSE detectFollowUpTrigger(answer, Tail(rules))

----------------------------------------------------------------------------
(* FreierTalkDetector.  A confidence is the exact fraction num / den.        *)

frustratedKeywords ==
    { <<"f", "r", "u", "s", "t", "r", "a", "t", "e", "d">>,
      <<"f", "r", "u", "s", "t", "r", "a", "t", "i", "o", "n">>,
      <<"f", "r", "u", "s", "t", "r", "i", "e", "r", "t">>,
      <<"h", "a", "t", "e">>,
      <<"h", "a", "s", "s", "e">>,
      <<"t", "e", "r", "r", "i", "b", "l", "e">>,
      <<"s", "c", "h", "r", "e", "c", "k", "l", "i", "c", "h">>,
      <<"n", "o", "t", "h", "i", "n", "g", " ", "w", "o", "r", "k", "s">>,
      <<"f", "u", "n", "k", "t", "i", "o", "n", "i", "e", "r", "t", " ", "n", "i", "c", "h", "t">>,
      <<"p", "r", "o", "b", "l", "e", "m", "s">>,
      <<"p", "r", "o", "b", "l", "e", "m", "e">> }

\* Math.min(matchCount / 3, 1)
confidenceOf(matchCount) == [num |-> IF matchCount < 3 THEN matchCount ELSE 3, den |-> 3]

\* (mutant) the score is a fourth per keyword
detectFrustration_byFourths(answer) ==
    LET answerLower == toLowerCase(answer)
        matchCount == Cardinality({kw \in frustratedKeywords : includesText(answerLower, kw)})
    IN [detected |-> matchCount > 0,
        confidence |-> [num |-> IF matchCount < 4 THEN matchCount ELSE 4, den |-> 4]]

\* detectFrustration(answer)
detectFrustration(answer) ==
    LET answerLower == toLowerCase(answer)
        matchCount == Cardinality({kw \in frustratedKeywords : includesText(answerLower, kw)})
    IN [detected |-> matchCount > 0, confidence |-> confidenceOf(matchCount)]

\* shouldSuggestFreierTalk(answer): detected && confidence > 0.6
shouldSuggestFreierTalk(answer) ==
    LET frustration == detectFrustration(answer) IN
    frustration.detected /\ frustration.confidence.num * 10 > 6 * frustration.confidence.den

----------------------------------------------------------------------------
(* models/Response.ts, models/FreierTalkEntry.ts *)

createResponse(id, sessionId, questionId, answer, timeSpent) ==
    [ id |-> id,
      sessionId |-> sessionId,
      questionId |-> questionId,
      answer |-> answer,
      answeredAt |-> now,
      timeSpent |-> timeSpent,
      isValid |-> TRUE,
      validationErrors |-> <<>>,
      triggeredFollowUp |-> FALSE ]

createFreierTalkEntry(id, sessionId, trigger) ==
    [ id |-> id,
      sessionId |-> sessionId,
      trigger |-> trigger,
      transcript |-> <<>>,
      startedAt |-> now,
      endedAt |-> Null,
      duration |-> 0,
      keyInsights |-> <<>>,
      tags |-> <<>>,
      sentiment |-> "neutral" ]

----------------------------------------------------------------------------
(* ConversationAPI *)


\* The question getNextQuestion serves: a required text question whose id is
\* `question-${crypto.randomUUID()}`
mockQuestion(uuid) ==
    [id |-> uuid, type |-> "text", required |-> TRUE, minLength |-> {}, maxLength |-> {},
     options |-> {}, scale |-> {}]

\* (mutant) the cursor may equal the total before the survey counts as done
getNextQuestion_offByOne(sessionId, uuid) ==
    IF sessionId \notin DOMAIN sessions THEN Reject(ENOENT)
    ELSE LET session == sessions[sessionId]
             total == MockTotal
             current == session.currentQuestionIndex
             percentComplete == RoundPercent(current, total) IN
      IF session.status = "paused" THEN Reject("Session is paused")
      ELSE IF session.status = "abandoned" THEN Reject("Session is abandoned")
      ELSE IF current > total THEN Reject("No more questions")
      ELSE Result(sessions, responses, freierTalk, checkpoints, backups, "ok",
                  [ question |-> mockQuestion(uuid),
                    progress |-> [current |-> current, total |-> total,
                                  percentComplete |-> percentComplete] ])

\* (mutant) progress.current counts the question being served, from one
getNextQuestion_oneBased(sessionId, uuid) ==
    IF sessionId \notin DOMAIN sessions THEN Reject(ENOENT)
    ELSE LET session == sessions[sessionId]
             total == MockTotal
             current == session.currentQuestionIndex + 1
             percentComplete == RoundPercent(current, total) IN
      IF session.status = "paused" THEN Reject("Session is paused")
      ELSE IF session.status = "abandoned" THEN Reject("Session is abandoned")
      ELSE IF session.currentQuestionIndex >= total THEN Reject("No more questions")
      ELSE Result(sessions, responses, freierTalk, checkpoints, backups, "ok",
                  [ question |-> mockQuestion(uuid),
                    progress |-> [current |-> current, total |-> total,
                                  percentComplete |-> percentComplete] ])

\* (mutant) serving the first question starts a session not yet started
getNextQuestion_startsSession(sessionId, uuid) ==
    IF sessionId \notin DOMAIN sessions THEN Reject(ENOENT)
    ELSE LET session == sessions[sessionId]
             total == MockTotal
             current == session.currentQuestionIndex
             percentComplete == RoundPercent(current, total)
             s1 == [session EXCEPT !.status = IF @ = "not_started" THEN "in_progress" ELSE @] IN
      IF session.status = "paused" THEN Reject("Session is paused")
      ELSE IF session.status = "abandoned" THEN Reject("Session is abandoned")
      ELSE IF current >= total THEN Reject("No more questions")
      ELSE Result(saveSession(sessions, s1), responses, freierTalk, checkpoints, backups, "ok",
                  [ question |-> mockQuestion(uuid),
                    progress |-> [current |-> current, total |-> total,
                                  percentComplete |-> percentComplete] ])

getNextQuestion(sessionId, uuid) ==
    IF sessionId \notin DOMAIN sessions THEN Reject(ENOENT)
    ELSE LET session == sessions[sessionId]
             total == MockTotal
             current == session.currentQuestionIndex
             percentComplete == RoundPercent(current, total) IN
      IF session.status = "paused" THEN Reject("Session is paused")
      ELSE IF session.status = "abandoned" THEN Reject("Session is abandoned")
      ELSE IF current >= total THEN Reject("No more questions")
      ELSE Result(sessions, responses, freierTalk, checkpoints, backups, "ok",
                  [ question |-> mockQuestion(uuid),
                    progress |-> [current |-> current, total |-> total,
                                  percentComplete |-> percentComplete] ])

\* request.timeSpent || 0
timeSpentOrZero(t) == IF t = {} THEN 0 ELSE CHOOSE v \in t : TRUE

\* (mutant) the session is re-read after saveResponse, which has already
\* recorded the response id in it
submitAnswer_reloadsSession(sessionId, request, fail) ==
    IF sessionId \notin DOMAIN sessions THEN Reject(ENOENT)
    ELSE IF request.questionId = "" THEN Reject("Question not found")
    ELSE LET response == createResponse(FreshId(responses), sessionId, request.questionId,
                                        request.answer, timeSpentOrZero(request.timeSpent))
             saved == saveResponse(response, fail)
             session == saved.sessions[sessionId]
             s1 == [session EXCEPT
                      !.responseIds = push(@, response.id),
                      !.currentQuestionIndex = @ + 1,
                      !.progress = RoundPercent(session.currentQuestionIndex + 1, MockTotal),
                      !.updatedAt = now] IN
      IF saved.thrown \/ fail = 3 THEN
        Result(saved.sessions, saved.responses, freierTalk, checkpoints, backups,
               StoreError, Null)
      ELSE
        Result(saveSession(saved.sessions, s1), saved.responses, freierTalk, checkpoints,
               backups, "ok",
               [ responseId |-> response.id, validated |-> TRUE, errors |-> <<>>,
                 followUpTriggered |-> FALSE, timeSpent |-> response.timeSpent ])

\* (mutant) progress is computed from the cursor before it is advanced
submitAnswer_staleProgress(sessionId, request, fail) ==
    IF sessionId \notin DOMAIN sessions THEN Reject(ENOENT)
    ELSE IF request.questionId = "" THEN Reject("Question not found")
    ELSE LET session == sessions[sessionId]
             response == createResponse(FreshId(responses), sessionId, request.questionId,
                                        request.answer, timeSpentOrZero(request.timeSpent))
             saved == saveResponse(response, fail)
             s1 == [session EXCEPT
                      !.responseIds = push(@, response.id),
                      !.currentQuestionIndex = @ + 1,
                      !.progress = RoundPercent(session.currentQuestionIndex, MockTotal),
                      !.updatedAt = now] IN
      IF saved.thrown \/ fail = 3 THEN
        Result(saved.sessions, saved.responses, freierTalk, checkpoints, backups,
               StoreError, Null)
      ELSE
        Result(saveSession(saved.sessions, s1), saved.responses, freierTalk, checkpoints,
               backups, "ok",
               [ responseId |-> response.id, validated |-> TRUE, errors |-> <<>>,
                 followUpTriggered |-> FALSE, timeSpent |-> response.timeSpent ])

\* Store calls that can throw: 1, 2 those of saveResponse, 3 saveSession.
submitAnswer(sessionId, request, fail) ==
    IF sessionId \notin DOMAIN sessions THEN Reject(ENOENT)
    ELSE IF request.questionId = "" THEN Reject("Question not found")
    ELSE LET session == sessions[sessionId]
             response == createResponse(FreshId(responses), sessionId, request.questionId,
                                        request.answer, timeSpentOrZero(request.timeSpent))
             saved == saveResponse(response, fail)
             s1 == [session EXCEPT
                      !.responseIds = push(@, response.id),
                      !.currentQuestionIndex = @ + 1,
                      !.progress = RoundPercent(session.currentQuestionIndex + 1, MockTotal),
                      !.updatedAt = now] IN
      IF saved.thrown \/ fail = 3 THEN
        Result(saved.sessions, saved.responses, freierTalk, checkpoints, backups,
               StoreError, Null)
      ELSE
        Result(saveSession(saved.sessions, s1), saved.responses, freierTalk, checkpoints,
               backups, "ok",
               [ responseId |-> response.id, validated |-> TRUE, errors |-> <<>>,
                 followUpTriggered |-> FALSE, timeSpent |-> response.timeSpent ])

\* Store calls that can throw: 1, 2 those of saveFreierTalkEntry, 3 saveSession.
\* (mutant) the id is pushed on the session as saveFreierTalkEntry left it
startFreierTalk_pushesOnSaved(sessionId, request, fail) ==
    IF sessionId \notin DOMAIN sessions THEN Reject(ENOENT)
    ELSE LET session == sessions[sessionId] IN
      IF session.status = "paused" THEN Reject("Session is paused")
      ELSE IF session.status = "abandoned" THEN Reject("Session is abandoned")
      ELSE LET created == createFreierTalkEntry(FreshId(freierTalk), sessionId, request.trigger)
               entry == IF request.initialMessage # ""
                        THEN [created EXCEPT !.transcript =
                                push(@, [role |-> "user", message |-> request.initialMessage,
                                         timestamp |-> now])]
                        ELSE created
               saved == saveFreierTalkEntry(entry, fail)
               s1 == [saved.sessions[sessionId] EXCEPT !.freierTalkIds = push(@, entry.id),
                                                       !.updatedAt = now] IN
        IF saved.thrown \/ fail = 3 THEN
          Result(saved.sessions, responses, saved.freierTalk, checkpoints, backups,
                 StoreError, Null)
        ELSE
          Result(saveSession(saved.sessions, s1), responses, saved.freierTalk, checkpoints,
                 backups, "ok", [freierTalkId |-> entry.id, status |-> "active"])

\* Store calls that can throw: 1, 2 those of saveFreierTalkEntry, 3 the
\* saveSession that follows it.
startFreierTalk(sessionId, request, fail) ==
    IF sessionId \notin DOMAIN sessions THEN Reject(ENOENT)
    ELSE LET session == sessions[sessionId] IN
      IF session.status = "paused" THEN Reject("Session is paused")
      ELSE IF session.status = "abandoned" THEN Reject("Session is abandoned")
      ELSE LET created == createFreierTalkEntry(FreshId(freierTalk), sessionId, request.trigger)
               entry == IF request.initialMessage # ""
                        THEN [created EXCEPT !.transcript =
                                push(@, [role |-> "user", message |-> request.initialMessage,
                                         timestamp |-> now])]
                        ELSE created
               saved == saveFreierTalkEntry(entry, fail)
               s1 == [session EXCEPT !.freierTalkIds = push(@, entry.id),
                                     !.updatedAt = now] IN
        IF saved.thrown \/ fail = 3 THEN
          Result(saved.sessions, responses, saved.freierTalk, checkpoints, backups,
                 StoreError, Null)
        ELSE
          Result(saveSession(saved.sessions, s1), responses, saved.freierTalk, checkpoints,
                 backups, "ok", [freierTalkId |-> entry.id, status |-> "active"])

\* getFreierTalkEntry: entries.find((e) => e.id === freierTalkId)
hasFreierTalkEntry(sessionId, freierTalkId) ==
    \E e \in loadFreierTalkEntries(sessionId) : e.id = freierTalkId

\* Store calls that can throw: 1, 2 those of saveFreierTalkEntry.
endFreierTalk(sessionId, freierTalkId, fail) ==
    IF ~hasFreierTalkEntry(sessionId, freierTalkId) THEN Reject("Freier Talk entry not found")
    ELSE LET entry == freierTalk[freierTalkId] IN
      IF entry.endedAt # Null THEN Reject("Freier Talk already ended")
      ELSE LET e1 == [entry EXCEPT
                        !.endedAt = now,
                        !.duration = now - entry.startedAt,
                        !.keyInsights = <<"Process improvement needed",
                                          "Communication gaps identified">>,
                        !.tags = <<"workflow", "process">>,
                        !.sentiment = "neutral"]
               saved == saveFreierTalkEntry(e1, fail) IN
        IF saved.thrown THEN
          Result(saved.sessions, responses, saved.freierTalk, checkpoints, backups,
                 StoreError, Null)
        ELSE
          Result(saved.sessions, responses, saved.freierTalk, checkpoints, backups, "ok",
                 [freierTalkId |-> freierTalkId, status |-> "ended",
                  duration |-> e1.duration, endedAt |-> now])

\* (mutant) the new turn is put in front of the transcript
addFreierTalkMessage_prepends(sessionId, freierTalkId, message, fail) ==
    IF ~hasFreierTalkEntry(sessionId, freierTalkId) THEN Reject("Freier Talk entry not found")
    ELSE LET entry == freierTalk[freierTalkId]
             e1 == [entry EXCEPT !.transcript =
                      <<[role |-> message.role, message |-> message.message,
                         timestamp |-> now]>> \o @]
             saved == saveFreierTalkEntry(e1, fail) IN
      IF saved.thrown THEN
        Result(saved.sessions, responses, saved.freierTalk, checkpoints, backups,
               StoreError, Null)
      ELSE
        Result(saved.sessions, responses, saved.freierTalk, checkpoints, backups, "ok", Null)

\* Store calls that can throw: 1, 2 those of saveFreierTalkEntry.
addFreierTalkMessage(sessionId, freierTalkId, message, fail) ==
    IF ~hasFreierTalkEntry(sessionId, freierTalkId) THEN Reject("Freier Talk entry not found")
    ELSE LET entry == freierTalk[freierTalkId]
             e1 == [entry EXCEPT !.transcript =
                      push(@, [role |-> message.role, message |-> message.message,
                               timestamp |-> now])]
             saved == saveFreierTalkEntry(e1, fail) IN
      IF saved.thrown THEN
        Result(saved.sessions, responses, saved.freierTalk, checkpoints, backups,
               StoreError, Null)
      ELSE
        Result(saved.sessions, responses, saved.freierTalk, checkpoints, backups, "ok", Null)

----------------------------------------------------------------------------
(* The API calls.  Inputs are drawn from small sets. *)

CreateRequests ==
    { [projectId |-> p, mode |-> m, temperature |-> t, maxTokens |-> k] :
        p \in {ValidProjectId, NotAUuid}, m \in {"quick", "turbo"},
        t \in {{}, {11}}, k \in {{}, {99}} }

\* Answer values: a string and a number
StringAnswer(s) == [type |-> "string", text |-> s, num |-> 0, items |-> <<>>]

NumberAnswer(n) == [type |-> "number", text |-> "", num |-> n, items |-> <<>>]

ArrayAnswer(items) == [type |-> "array", text |-> "", num |-> 0, items |-> items]

\* null, undefined and NaN
OtherAnswer(kind) == [type |-> kind, text |-> "", num |-> 0, items |-> <<>>]

\* Answers of every kind, at and around the limits of QuestionInputs
AnswerInputs ==
    {OtherAnswer(k) : k \in {"null", "undefined", "NaN"}}
      \cup {StringAnswer(s) : s \in {"", "a", "abcdef", "Test answer", "3", "6"}}
      \cup {NumberAnswer(n) : n \in 0..6}
      \cup {ArrayAnswer(a) : a \in {<<>>, <<"a">>, <<"a", "z">>, <<"6">>}}

\* Questions of every type, required or not, with and without limits
QuestionInputs ==
    { [type |-> ty, required |-> r, minLength |-> lo, maxLength |-> hi,
       options |-> o, scale |-> s] :
        ty \in {"text", "number", "single_choice", "multiple_choice", "scale"},
        r \in BOOLEAN, lo \in {{}, {5}}, hi \in {{}, {8}},
        o \in {{}, {{"a", "b"}}}, s \in {{}, {[min |-> 1, max |-> 5]}} }

Answers == {StringAnswer(""), StringAnswer("Test answer")}

SubmitRequests ==
    { [questionId |-> q, answer |-> a, timeSpent |-> {}] :
        q \in {"", "question-1"}, a \in Answers }

StartFreierTalkRequests ==
    { [trigger |-> "user_initiated", initialMessage |-> m] : m \in {"", "Different topic"} }

Messages == { [role |-> r, message |-> "more"] : r \in {"user", "ai"} }

CheckpointReasons == {"manual_save"}

\* One call of an API method: the files it wrote, what it resolved or threw,
\* and the uuids crypto.randomUUID() handed to createCheckpoint during it
ApplyUsing(op, sessionId, res, uuids) ==
    /\ sessions' = res.sessions
    /\ responses' = res.responses
    /\ freierTalk' = res.freierTalk
    /\ checkpoints' = res.checkpoints
    /\ backups' = res.backups
    /\ usedUUIDs' = usedUUIDs \cup uuids
    /\ lastCall' = [op |-> op, sessionId |-> sessionId, outcome |-> res.outcome,
                    ret |-> res.ret]
    /\ UNCHANGED <<now, calls>>

Apply(op, sessionId, res) == ApplyUsing(op, sessionId, res, {})

\* One call createSession(request)
CreateCall(request, fail) ==
    Apply("createSession", MalformedSessionId, createSession(request, fail))

CreateSessionUpTo(limit) ==
    \E request \in CreateRequests, fail \in 0..1 :
        /\ Cardinality(DOMAIN sessions) < limit
        /\ CreateCall(request, fail)

CreateSession == CreateSessionUpTo(MaxSessions)

\* Requests at and around every bound createSession checks
ProjectIdTexts ==
    {EmptyText, NotAUuid} \cup
    {UuidText(TRUE, TRUE, version, variant) : version \in {1, 4}, variant \in {7, 8, 11, 12}}

\* every field at the edges of what createSession lets through
EdgeCreateRequests ==
    { [projectId |-> p, mode |-> m, temperature |-> t, maxTokens |-> k] :
        p \in {ValidProjectId, UuidText(TRUE, TRUE, 4, 11)}, m \in Modes,
        t \in {{}, {0}, {10}}, k \in {{}, {100}, {4000}} }

\* one field of a request changed to each value the model draws for it
BoundaryCreateRequests ==
    LET base == [projectId |-> ValidProjectId, mode |-> "deep", temperature |-> {7},
                 maxTokens |-> {}] IN
    EdgeCreateRequests
      \cup {[base EXCEPT !.projectId = p] : p \in ProjectIdTexts}
      \cup {[base EXCEPT !.mode = m] : m \in Modes \cup {"invalid"}}
      \cup {[base EXCEPT !.temperature = v] : v \in {{-1}, {11}}}
      \cup {[base EXCEPT !.maxTokens = v] : v \in {{99}, {4001}}}
      \cup {[base EXCEPT !.projectId = NotAUuid, !.temperature = {11}]}

CreateSessionAtBounds ==
    \E request \in BoundaryCreateRequests, fail \in 0..1 :
        /\ Cardinality(DOMAIN sessions) < MaxSessions
        /\ CreateCall(request, fail)

StartSession ==
    \E sessionId \in SessionIdInputs, fail \in 0..1 :
        Apply("startSession", sessionId, startSession(sessionId, fail))

ResumeSession ==
    \E sessionId \in SessionIdInputs \cup {MalformedSessionId}, fail \in 0..1 :
        Apply("resumeSession", sessionId, resumeSession(sessionId, fail))

\* One call pauseSession(sessionId), crypto.randomUUID() returning `id`
PauseCall(sessionId, id, fail) ==
    ApplyUsing("pauseSession", sessionId, pauseSession(sessionId, id, fail),
               IF /\ sessionId \in DOMAIN sessions
                  /\ sessions[sessionId].status \in {"not_started", "in_progress"}
                 THEN {id} ELSE {})

\* crypto.randomUUID() in createCheckpoint returns one of `ids`
PauseSessionWith(ids) ==
    \E sessionId \in SessionIdInputs, id \in ids, fail \in 0..4 :
        /\ Cardinality(usedUUIDs) < MaxCheckpoints
        /\ PauseCall(sessionId, id, fail)

\* Where the order of checkpoint ids is not observed, the first unused one
FirstUnusedUUID == {id \in UUIDs \ usedUUIDs : \A other \in UUIDs \ usedUUIDs : id <= other}

PauseSession == PauseSessionWith(FirstUnusedUUID)

PauseSessionAnyId == PauseSessionWith(UUIDs \ usedUUIDs)

AbandonSession ==
    \E sessionId \in SessionIdInputs, fail \in 0..1 :
        Apply("abandonSession", sessionId, abandonSession(sessionId, fail))

CompleteSession ==
    \E sessionId \in SessionIdInputs, fail \in 0..1 :
        Apply("completeSession", sessionId, completeSession(sessionId, fail))

\* The uuid crypto.randomUUID() gave the question of the call before
servedUUIDs ==
    IF lastCall.op = "getNextQuestion" /\ lastCall.outcome = "ok"
    THEN {lastCall.ret.question.id} ELSE {}

\* One call getNextQuestion(sessionId), crypto.randomUUID() returning a uuid it
\* did not return the call before
NextQuestionCall(sessionId) ==
    \E uuid \in UUIDs \ servedUUIDs :
        Apply("getNextQuestion", sessionId, getNextQuestion(sessionId, uuid))

GetNextQuestion ==
    \E sessionId \in SessionIdInputs : NextQuestionCall(sessionId)

\* One call submitAnswer(sessionId, request)
SubmitCall(sessionId, request, fail) ==
    Apply("submitAnswer", sessionId, submitAnswer(sessionId, request, fail))

SubmitAnswerWith(requests, fails, max) ==
    \E sessionId \in SessionIdInputs, request \in requests, fail \in fails :
        /\ Cardinality(DOMAIN responses) < max
        /\ SubmitCall(sessionId, request, fail)

SubmitAnswer == SubmitAnswerWith(SubmitRequests, 0..3, MaxResponses)

\* An accepted answer with a working store
ValidRequest == [questionId |-> "question-1", answer |-> StringAnswer("Test answer"),
                 timeSpent |-> {}]

SubmitValidAnswer == SubmitAnswerWith({ValidRequest}, {0}, MaxResponses)

\* One call startFreierTalk(sessionId, request)
StartTalkCall(sessionId, request, fail) ==
    /\ Cardinality(DOMAIN freierTalk) < MaxFreierTalks
    /\ Apply("startFreierTalk", sessionId, startFreierTalk(sessionId, request, fail))

StartFreierTalkWith(fails) ==
    \E sessionId \in SessionIdInputs, request \in StartFreierTalkRequests, fail \in fails :
        StartTalkCall(sessionId, request, fail)

\* One call endFreierTalk(sessionId, freierTalkId)
EndTalkCall(sessionId, freierTalkId, fail) ==
    Apply("endFreierTalk", sessionId, endFreierTalk(sessionId, freierTalkId, fail))

EndFreierTalkWith(fails) ==
    \E sessionId \in SessionIdInputs, freierTalkId \in 1..MaxFreierTalks, fail \in fails :
        EndTalkCall(sessionId, freierTalkId, fail)

\* One call addFreierTalkMessage(sessionId, freierTalkId, message)
AddTalkCall(sessionId, freierTalkId, message, fail) ==
    Apply("addFreierTalkMessage", sessionId,
          addFreierTalkMessage(sessionId, freierTalkId, message, fail))

AddFreierTalkMessageUpTo(fails, limit) ==
    \E sessionId \in SessionIdInputs, freierTalkId \in 1..MaxFreierTalks,
       message \in Messages, fail \in fails :
        /\ \A k \in DOMAIN freierTalk : Len(freierTalk[k].transcript) < limit
        /\ AddTalkCall(sessionId, freierTalkId, message, fail)

AddFreierTalkMessageWith(fails) == AddFreierTalkMessageUpTo(fails, MaxTranscript)

\* The side channel with a working store
StartFreierTalk == StartFreierTalkWith({0})

EndFreierTalk == EndFreierTalkWith({0})

AddFreierTalkMessage == AddFreierTalkMessageWith({0})

\* createCheckpoint called directly (the auto-save cadence, a manual save) with
\* a session the caller holds: a stored one, or one restored from a backup.
\* One call createCheckpoint(session, reason), crypto.randomUUID() returning `id`
CheckpointCall(session, reason, id, fail) ==
    LET cp == createCheckpoint(session, reason, id, fail) IN
    ApplyUsing("createCheckpoint", session.id,
               Result(sessions, responses, freierTalk, cp.checkpoints, cp.backups,
                      IF cp.thrown THEN StoreError ELSE "ok",
                      [checkpoint |-> cp.checkpoint, session |-> session]),
               {id})

CreateCheckpoint ==
    \E session \in Range(sessions) \cup Range(backups), reason \in CheckpointReasons,
       id \in UUIDs \ usedUUIDs, fail \in 0..3 :
        /\ Cardinality(usedUUIDs) < MaxCheckpoints
        /\ CheckpointCall(session, reason, id, fail)

\* The store is read only: the call resolves with the descriptor or null
LoadLatestCheckpoint ==
    \E sessionId \in SessionIdInputs :
        Apply("loadLatestCheckpoint", sessionId,
              Result(sessions, responses, freierTalk, checkpoints, backups, "ok",
                     loadLatestCheckpoint(checkpoints, sessionId)))

\* One call listCheckpoints(sessionId) that resolves with `list`
ListCall(sessionId, list) ==
    Apply("listCheckpoints", sessionId,
          Result(sessions, responses, freierTalk, checkpoints, backups, "ok", list))

ListCheckpointsOf(ids) ==
    \E sessionId \in ids :
        \E list \in listCheckpoints(checkpoints, sessionId) : ListCall(sessionId, list)

ListCheckpoints == ListCheckpointsOf(SessionIdInputs)

KeepCounts == 0..MaxCheckpoints

\* One call cleanupCheckpoints(sessionId, keepCount)
CleanupCall(sessionId, keepCount, list) ==
    Apply("cleanupCheckpoints", sessionId, cleanupCheckpoints(sessionId, keepCount, list))

CleanupCheckpoints ==
    \E sessionId \in SessionIdInputs, keepCount \in KeepCounts :
        \E list \in listCheckpoints(checkpoints, sessionId) :
            CleanupCall(sessionId, keepCount, list)

\* One call validateAnswer(answer, question)
ValidateCall(answer, question) ==
    LET result == validateAnswer(answer, question) IN
    /\ lastCall' = [op |-> "validateAnswer", sessionId |-> MalformedSessionId,
                    outcome |-> IF result.thrown THEN "TypeError" ELSE "ok",
                    ret |-> [answer |-> answer, question |-> question,
                             valid |-> result.valid, errors |-> result.errors]]
    /\ UNCHANGED <<sessions, responses, freierTalk, checkpoints, backups, usedUUIDs, now,
                   calls>>

ValidateAnswer ==
    /\ lastCall.op = "validateAnswer"
    /\ lastCall.outcome = "pending"
    /\ ValidateCall(lastCall.ret.answer, lastCall.ret.question)

\* Answer texts: short, padded, vague, negative, neutral, with a rule keyword
FollowUpAnswers ==
    { <<"N", "o">>,
      <<" ", " ", "d", "e", "p", "l", "o", "y", " ", " ">>,
      <<"M", "a", "y", "b", "e", ",", " ", "w", "e", " ", "d", "e", "p", "l", "o", "y", " ", "b", "y", " ", "h", "a", "n", "d", ".">>,
      <<"W", "e", " ", "r", "e", "v", "i", "e", "w", " ", "e", "v", "e", "r", "y", " ", "c", "h", "a", "n", "g", "e", ".">>,
      <<"I", " ", "d", "o", " ", "n", "o", "t", " ", "k", "n", "o", "w", ",", " ", "i", "t", " ", "d", "e", "p", "e", "n", "d", "s", ".">>,
      <<>> }

\* Follow-up rules of every condition, with and without threshold, keywords
\* and bound question
FollowUpRules ==
    { [condition |-> c, threshold |-> th, keywords |-> kw, followUpQuestion |-> fq] :
        c \in {"answer_too_short", "answer_too_vague", "contains_keywords",
               "answer_negative"},
        th \in {{}, {5}}, kw \in {{}, {<<<<"D", "E", "P", "L", "O", "Y">>, <<"p", "i", "p", "e", "l", "i", "n", "e">>>>}},
        fq \in {{}, {"follow-up-a"}, {"follow-up-b"}} }

\* question.followUpRules: absent or empty, or up to MaxRules rules
RuleLists == UNION {[1..n -> FollowUpRules] : n \in 0..MaxRules}

\* One call detectFollowUpTrigger(answer, question)
FollowUpCall(answer, rules) ==
    LET result == detectFollowUpTrigger(answer, rules) IN
    /\ lastCall' = [op |-> "detectFollowUpTrigger", sessionId |-> MalformedSessionId,
                    outcome |-> "ok",
                    ret |-> [answer |-> answer, rules |-> rules,
                             triggered |-> result.triggered, reason |-> result.reason,
                             followUpQuestion |-> result.followUpQuestion]]
    /\ UNCHANGED <<sessions, responses, freierTalk, checkpoints, backups, usedUUIDs, now,
                   calls>>

DetectFollowUpTrigger ==
    /\ lastCall.op = "detectFollowUpTrigger"
    /\ lastCall.outcome = "pending"
    /\ FollowUpCall(lastCall.ret.answer, lastCall.ret.rules)

\* Pieces of answers: with one, two and no frustration keyword, in mixed case
AnswerPieces ==
    { <<"I", " ", "H", "A", "T", "E", " ", "i", "t", ".", " ">>,
      <<"I", "t", " ", "i", "s", " ", "T", "e", "r", "r", "i", "b", "l", "e", ",", " ", "s", "o", " ", "m", "a", "n", "y", " ", "p", "r", "o", "b", "l", "e", "m", "s", "!", " ">>,
      <<"n", "o", "t", "h", "i", "n", "g", " ", "w", "o", "r", "k", "s", " ">>,
      <<"W", "e", " ", "u", "s", "e", " ", "G", "i", "t", "H", "u", "b", " ", "P", "R", "s", ".", " ">>,
      <<"I", " ", "a", "m", " ", "s", "o", " ", "f", "r", "u", "s", "t", "r", "a", "t", "e", "d", " ", "w", "i", "t", "h", " ", "o", "u", "r", " ", "d", "e", "p", "l", "o", "y", "m", "e", "n", "t", " ", "p", "r", "o", "c", "e", "s", "s", ",", " ", "n", "o", "t", "h", "i", "n", "g", " ", "w", "o", "r", "k", "s", "!">> }

RECURSIVE concat(_)
concat(pieces) == IF pieces = <<>> THEN <<>> ELSE Head(pieces) \o concat(Tail(pieces))

\* Answers of up to MaxPieces pieces
DetectorAnswers == {concat(pieces) : pieces \in UNION {[1..n -> AnswerPieces] : n \in 0..MaxPieces}}

\* One call shouldSuggestFreierTalk(answer), with the DetectionResult of the
\* detectFrustration(answer) it makes
SuggestCall(answer) ==
    LET frustration == detectFrustration(answer) IN
    /\ lastCall' = [op |-> "shouldSuggestFreierTalk", sessionId |-> MalformedSessionId,
                    outcome |-> "ok",
                    ret |-> [answer |-> answer, detected |-> frustration.detected,
                             confidence |-> frustration.confidence,
                             suggest |-> shouldSuggestFreierTalk(answer)]]
    /\ UNCHANGED <<sessions, responses, freierTalk, checkpoints, backups, usedUUIDs, now,
                   calls>>

ShouldSuggestFreierTalk ==
    /\ lastCall.op = "shouldSuggestFreierTalk"
    /\ lastCall.outcome = "pending"
    /\ SuggestCall(lastCall.ret.answer)

Tick ==
    /\ now < MaxTime
    /\ now' = now + 1
    /\ UNCHANGED <<sessions, responses, freierTalk, checkpoints, backups, usedUUIDs, lastCall,
                   calls>>

----------------------------------------------------------------------------
(* submitAnswer as the event loop runs it: each await of a store call is a    *)
(* point where another call on the same ConversationAPI can run.  A caller's  *)
(* locals are `session` (loaded by submitAnswer), `response`, and `fresh`     *)
(* (the session saveResponse loads for itself).                               *)

Callers == 1..MaxCallers

InFlight == {c \in DOMAIN calls : calls[c].pc # "done"}

\* crypto.randomUUID() of createResponse: an id no stored or pending response has
RandomResponseId ==
    CHOOSE id \in 1..(2 * MaxCallers) :
        /\ id \notin DOMAIN responses
        /\ \A c \in DOMAIN calls : calls[c].response.id # id

\* saveResponse: if (!session.responseIds.includes(response.id)) push
withResponseId(session, id) ==
    IF includes(session.responseIds, id) THEN session
    ELSE [session EXCEPT !.responseIds = push(@, id)]

\* (mutant) the id is left to saveResponse, which has recorded it in the
\* session it loaded itself
updatedSession_withoutPush(session, id) ==
    [session EXCEPT !.currentQuestionIndex = @ + 1,
                    !.progress = RoundPercent(session.currentQuestionIndex + 1, MockTotal),
                    !.updatedAt = now]

\* submitAnswer, "Update session": push, cursor, progress, updatedAt
updatedSession(session, id) ==
    [session EXCEPT !.responseIds = push(@, id),
                    !.currentQuestionIndex = @ + 1,
                    !.progress = RoundPercent(session.currentQuestionIndex + 1, MockTotal),
                    !.updatedAt = now]

Advance(c, pc) == calls' = [calls EXCEPT ![c].pc = pc]

\* await this.storage.loadSession(sessionId), then createResponse
BeginSubmit(c) ==
    /\ c \notin DOMAIN calls
    /\ \E sessionId \in DOMAIN sessions :
         LET request == ValidRequest
             session == sessions[sessionId]
             response == createResponse(RandomResponseId, sessionId, request.questionId,
                                        request.answer, timeSpentOrZero(request.timeSpent))
         IN calls' = [k \in DOMAIN calls \cup {c} |->
                        IF k = c
                          THEN [ pc |-> "loadSession", session |-> session,
                                 response |-> response, fresh |-> session,
                                 overlapped |-> InFlight # {} ]
                          ELSE [calls[k] EXCEPT !.overlapped = @ \/ calls[k].pc # "done"]]
    /\ UNCHANGED <<store, usedUUIDs, now, lastCall>>

\* saveResponse: await this.loadSession(response.sessionId), the id pushed on it
SaveResponseLoad(c) ==
    /\ c \in DOMAIN calls
    /\ calls[c].pc = "loadSession"
    /\ calls' = [calls EXCEPT
                   ![c].fresh = withResponseId(sessions[calls[c].session.id],
                                               calls[c].response.id),
                   ![c].pc = "writeResponse"]
    /\ UNCHANGED <<store, usedUUIDs, now, lastCall>>

\* saveResponse: await this.storage.writeJSON(filePath, response)
SaveResponseWrite(c) ==
    /\ c \in DOMAIN calls
    /\ calls[c].pc = "writeResponse"
    /\ responses' = writeJSON(responses, calls[c].response.id, calls[c].response)
    /\ Advance(c, "saveSession")
    /\ UNCHANGED <<sessions, freierTalk, checkpoints, backups, usedUUIDs, now, lastCall>>

\* saveResponse: await this.saveSession(session)
SaveResponseSave(c) ==
    /\ c \in DOMAIN calls
    /\ calls[c].pc = "saveSession"
    /\ sessions' = saveSession(sessions, calls[c].fresh)
    /\ Advance(c, "update")
    /\ UNCHANGED <<responses, freierTalk, checkpoints, backups, usedUUIDs, now, lastCall>>

\* submitAnswer: the session it loaded is updated and saved, the call resolves
FinishSubmit(c) ==
    /\ c \in DOMAIN calls
    /\ calls[c].pc = "update"
    /\ sessions' = saveSession(sessions, updatedSession(calls[c].session, calls[c].response.id))
    /\ Advance(c, "done")
    /\ lastCall' = [ op |-> "submitAnswer", sessionId |-> calls[c].session.id,
                     outcome |-> "ok",
                     ret |-> [ responseId |-> calls[c].response.id, validated |-> TRUE,
                               errors |-> <<>>, followUpTriggered |-> FALSE,
                               timeSpent |-> calls[c].response.timeSpent ] ]
    /\ UNCHANGED <<responses, freierTalk, checkpoints, backups, usedUUIDs, now>>

SubmitStep ==
    \E c \in Callers :
        \/ BeginSubmit(c)
        \/ SaveResponseLoad(c)
        \/ SaveResponseWrite(c)
        \/ SaveResponseSave(c)
        \/ FinishSubmit(c)

\* The workspace after construction: no file, no call in flight
EmptyWorkspace ==
    /\ sessions = <<>>
    /\ responses = <<>>
    /\ freierTalk = <<>>
    /\ checkpoints = <<>>
    /\ backups = <<>>
    /\ usedUUIDs = {}
    /\ now = 0
    /\ calls = <<>>

Init ==
    /\ EmptyWorkspace
    /\ lastCall = [op |-> "none", sessionId |-> MalformedSessionId, outcome |-> "ok",
                   ret |-> Null]

\* A call of a pure function about to be made with the arguments `args`
Pending(op, args) ==
    [op |-> op, sessionId |-> MalformedSessionId, outcome |-> "pending", ret |-> args]

\* The call of `op` has returned or thrown
Returned(op) == lastCall.op = op /\ lastCall.outcome # "pending"

\* The session lifecycle and the question flow
Next ==
    \/ CreateSession
    \/ StartSession
    \/ ResumeSession
    \/ PauseSession
    \/ AbandonSession
    \/ CompleteSession
    \/ GetNextQuestion
    \/ SubmitAnswer

Spec == Init /\ [][Next]_vars

\* The free-form side channel beside the question flow
NextTalk ==
    \/ CreateSession
    \/ StartSession
    \/ AbandonSession
    \/ SubmitValidAnswer
    \/ StartFreierTalk
    \/ EndFreierTalk
    \/ AddFreierTalkMessage

SpecTalk == Init /\ [][NextTalk]_vars

\* The side channel on a store whose writes can fail
NextTalkFaults ==
    \/ CreateSession
    \/ AbandonSession
    \/ StartFreierTalkWith(0..3)
    \/ EndFreierTalkWith(0..2)
    \/ AddFreierTalkMessageWith(0..2)

SpecTalkFaults == Init /\ [][NextTalkFaults]_vars

\* The first free-form entry of the store
StartFirstFreierTalk ==
    /\ DOMAIN freierTalk = {}
    /\ StartFreierTalk

\* One free-form conversation from start to end, with the clock running and
\* a transcript of up to MaxTurns turns
NextConversation ==
    \/ CreateSession
    \/ StartSession
    \/ StartFirstFreierTalk
    \/ AddFreierTalkMessageUpTo({0}, MaxTurns)
    \/ EndFreierTalk
    \/ Tick

SpecConversation == Init /\ [][NextConversation]_vars

\* The checkpoint subsystem
NextCheckpoint ==
    \/ CreateSession
    \/ StartSession
    \/ SubmitValidAnswer
    \/ PauseSessionAnyId
    \/ ResumeSession
    \/ CreateCheckpoint
    \/ Tick

SpecCheckpoint == Init /\ [][NextCheckpoint]_vars

\* Checkpoints listed, looked up and pruned
NextRetention ==
    \/ CreateSession
    \/ StartSession
    \/ CreateCheckpoint
    \/ LoadLatestCheckpoint
    \/ ListCheckpoints
    \/ CleanupCheckpoints
    \/ Tick

SpecRetention == Init /\ [][NextRetention]_vars

\* the session ids of a store of up to MaxListed sessions, and one beyond
ListedIds == 1..(MaxListed + 1)

\* Checkpoints of several sessions side by side, listed per session
NextListing ==
    \/ CreateSessionUpTo(MaxListed)
    \/ CreateCheckpoint
    \/ ListCheckpointsOf(ListedIds)
    \/ Tick

SpecListing == Init /\ [][NextListing]_vars

\* The validation engine applied to answers and questions of every kind
InitValidate ==
    /\ EmptyWorkspace
    /\ \E answer \in AnswerInputs, question \in QuestionInputs :
         lastCall = Pending("validateAnswer", [answer |-> answer, question |-> question])

NextValidate == ValidateAnswer

SpecValidate == InitValidate /\ [][NextValidate]_vars

\* Follow-up detection applied to rule lists and answers of every kind
InitFollowUp ==
    /\ EmptyWorkspace
    /\ \E answer \in FollowUpAnswers, rules \in RuleLists :
         lastCall = Pending("detectFollowUpTrigger", [answer |-> answer, rules |-> rules])

NextFollowUp == DetectFollowUpTrigger

SpecFollowUp == InitFollowUp /\ [][NextFollowUp]_vars

\* The frustration detector applied to answers with any number of keywords
InitDetector ==
    /\ EmptyWorkspace
    /\ \E answer \in DetectorAnswers :
         lastCall = Pending("shouldSuggestFreierTalk", [answer |-> answer])

NextDetector == ShouldSuggestFreierTalk

SpecDetector == InitDetector /\ [][NextDetector]_vars

\* One survey answered to its end and beyond, with a working store
SubmitToTheEnd == SubmitAnswerWith({ValidRequest}, {0}, MaxLongRun)

NextLong ==
    \/ CreateSession
    \/ StartSession
    \/ GetNextQuestion
    \/ SubmitToTheEnd
    \/ CompleteSession

SpecLong == Init /\ [][NextLong]_vars

\* Sessions created from requests at the bounds, and taken through their life
NextCreate ==
    \/ CreateSessionAtBounds
    \/ StartSession
    \/ AbandonSession
    \/ CompleteSession
    \/ Tick

SpecCreate == Init /\ [][NextCreate]_vars

\* submitAnswer calls of several callers, interleaved at their awaits
NextRace ==
    \/ CreateSession
    \/ SubmitStep

SpecRace == Init /\ [][NextRace]_vars

----------------------------------------------------------------------------
(* Properties *)

LifecycleOps ==
    {"startSession", "pauseSession", "resumeSession", "abandonSession", "completeSession"}

\* the free-form entries of a session that are still open
OpenEntries(sessionId) == {e \in loadFreierTalkEntries(sessionId) : e.endedAt = Null}

\* C1: no operation changes the status of an abandoned or completed session:
\* the status stored for it stays what it was, and a lifecycle call
\* (start, pause, resume, abandon, complete) made on it fails.
C1_TerminalStatusIsFinal ==
    [][\A sid \in DOMAIN sessions :
         sessions[sid].status \in {"abandoned", "completed"} =>
           /\ sessions'[sid].status = sessions[sid].status
           /\ (lastCall'.op \in LifecycleOps /\ lastCall'.sessionId = sid
                 => lastCall'.outcome # "ok")]_vars

\* C2: with a working store pauseSession succeeds exactly when the status is
\* not_started or in_progress; a success leaves the status paused; whenever
\* the stored status becomes paused, a new auto_save checkpoint of that
\* session (descriptor and backup) is already in the store, whatever store call
\* fails; from paused, abandoned or completed the call fails and writes
\* neither a checkpoint nor the session.
C2_PauseCheckpointsBeforePausing ==
    [][\A sid \in DOMAIN sessions, id \in UUIDs, fail \in 0..4 :
         (lastCall'.op = "pauseSession" /\ PauseCall(sid, id, fail)) =>
           LET status == sessions[sid].status
               written == { k \in DOMAIN checkpoints' \ DOMAIN checkpoints :
                              /\ checkpoints'[k].reason = "auto_save"
                              /\ checkpoints'[k].sessionId = sid
                              /\ checkpoints'[k].backupPath \in DOMAIN backups' }
           IN /\ fail = 0 =>
                   (lastCall'.outcome = "ok" <=> status \in {"not_started", "in_progress"})
              /\ lastCall'.outcome = "ok" => sessions'[sid].status = "paused"
              /\ (sessions'[sid].status = "paused" /\ status # "paused") => written # {}
              /\ status \in {"paused", "abandoned", "completed"} =>
                   /\ lastCall'.outcome # "ok"
                   /\ checkpoints' = checkpoints
                   /\ backups' = backups
                   /\ sessions' = sessions]_vars

C2_Witness ==
    /\ lastCall.op = "pauseSession" /\ lastCall.outcome = "ok"
    /\ sessions[lastCall.sessionId].status = "paused"
    /\ Len(sessions[lastCall.sessionId].responseIds) > 0
    /\ \E k \in DOMAIN checkpoints : checkpoints[k].reason = "auto_save"

\* C3: when one of createCheckpoint's store calls fails during pauseSession on
\* a session that could be paused, pauseSession fails, the stored session is
\* not changed and no checkpoint descriptor is added.
C3_FailedCheckpointAbortsPause ==
    [][\A sid \in DOMAIN sessions, id \in UUIDs, fail \in 1..3 :
         ( /\ lastCall'.op = "pauseSession"
           /\ sessions[sid].status \in {"not_started", "in_progress"}
           /\ PauseCall(sid, id, fail) ) =>
           /\ lastCall'.outcome # "ok"
           /\ sessions' = sessions
           /\ checkpoints' = checkpoints]_vars

C3_Witness ==
    /\ lastCall.op = "pauseSession"
    /\ lastCall.outcome = StoreError
    /\ lastCall.sessionId \in DOMAIN sessions
    /\ sessions[lastCall.sessionId].status = "in_progress"
    /\ DOMAIN backups # {}
    /\ DOMAIN checkpoints = {}

\* C4: currentQuestionIndex of a session never decreases and always satisfies
\* 0 <= currentQuestionIndex <= totalQuestions.
C4_CursorWithinTotal ==
    [][\A sid \in DOMAIN sessions' :
         /\ sid \in DOMAIN sessions =>
              sessions'[sid].currentQuestionIndex >= sessions[sid].currentQuestionIndex
         /\ 0 <= sessions'[sid].currentQuestionIndex
         /\ sessions'[sid].currentQuestionIndex <= sessions'[sid].totalQuestions]_vars

\* C5: a submitAnswer whose answer fails validation against its question is
\* rejected, creates no Response and leaves the stored session unchanged.
C5_InvalidAnswerRejected ==
    [][\A sid \in DOMAIN sessions, request \in SubmitRequests, fail \in 0..3 :
         ( /\ lastCall'.op = "submitAnswer"
           /\ request.questionId # ""
           /\ \A uuid \in UUIDs : ~validateAnswer(request.answer, mockQuestion(uuid)).valid
           /\ SubmitCall(sid, request, fail) ) =>
           /\ lastCall'.outcome # "ok"
           /\ responses' = responses
           /\ sessions' = sessions]_vars

\* C6: a successful submitAnswer adds exactly one Response record, leaves every
\* existing Response as it was, appends the new record's id once at the end of
\* responseIds (the earlier entries unchanged) and advances
\* currentQuestionIndex by exactly one.
C6_SubmitAddsOneResponse ==
    [][\A sid \in DOMAIN sessions, request \in SubmitRequests, fail \in 0..3 :
         ( /\ lastCall'.op = "submitAnswer" /\ lastCall'.outcome = "ok"
           /\ SubmitCall(sid, request, fail) ) =>
           LET added == DOMAIN responses' \ DOMAIN responses IN
           /\ Cardinality(added) = 1
           /\ \A k \in DOMAIN responses : responses'[k] = responses[k]
           /\ \A id \in added :
                /\ ~includes(sessions[sid].responseIds, id)
                /\ sessions'[sid].responseIds = Append(sessions[sid].responseIds, id)
                /\ lastCall'.ret.responseId = id
           /\ sessions'[sid].currentQuestionIndex = sessions[sid].currentQuestionIndex + 1]_vars

C6_Witness ==
    /\ lastCall.op = "submitAnswer" /\ lastCall.outcome = "ok"
    /\ Cardinality(DOMAIN responses) = 2
    /\ Len(sessions[lastCall.sessionId].responseIds) = 2
    /\ sessions[lastCall.sessionId].currentQuestionIndex = 2

\* C7: right after a successful submitAnswer made while the session has no open
\* free-form entry, progress = round(currentQuestionIndex / totalQuestions * 100).
C7_ProgressAfterSubmit ==
    [][\A sid \in DOMAIN sessions :
         ( /\ lastCall'.op = "submitAnswer" /\ lastCall'.outcome = "ok"
           /\ OpenEntries(sid) = {}
           /\ SubmitCall(sid, ValidRequest, 0) ) =>
           sessions'[sid].progress =
             RoundPercent(sessions'[sid].currentQuestionIndex, sessions'[sid].totalQuestions)]_vars

C7_Witness ==
    /\ lastCall.op = "submitAnswer" /\ lastCall.outcome = "ok"
    /\ OpenEntries(lastCall.sessionId) = {}
    /\ loadFreierTalkEntries(lastCall.sessionId) # {}
    /\ sessions[lastCall.sessionId].currentQuestionIndex = 2
    /\ sessions[lastCall.sessionId].progress = 20

\* C8: while a free-form entry of a session is open (started, not yet ended),
\* no operation changes the session's currentQuestionIndex.
C8_CursorFrozenWhileTalkOpen ==
    [][\A sid \in DOMAIN sessions :
         OpenEntries(sid) # {} =>
           sessions'[sid].currentQuestionIndex = sessions[sid].currentQuestionIndex]_vars

\* C9: in every reachable state each session has at most one free-form entry
\* whose endedAt is null.
C9_AtMostOneOpenEntry ==
    \A sid \in DOMAIN sessions : Cardinality(OpenEntries(sid)) <= 1

CheckpointsOf(dir, sessionId) == {dir[k] : k \in checkpointFiles(dir, sessionId)}

\* C11: a checkpoint is immutable once written: no step changes or removes
\* the descriptor of a stored checkpoint, and restoreSession on it keeps
\* returning the same session, however many checkpoints are created later.
C11_CheckpointsImmutable ==
    [][\A k \in DOMAIN checkpoints :
         /\ k \in DOMAIN checkpoints'
         /\ checkpoints'[k] = checkpoints[k]
         /\ checkpoints[k].backupPath \in DOMAIN backups'
         /\ restoreSession(backups', checkpoints[k]) = restoreSession(backups, checkpoints[k])]_vars

\* C12: loadLatestCheckpoint(sessionId) returns none when the session has no
\* checkpoint, and otherwise a descriptor of the session than which none
\* stored for it was created later.
C12_LatestIsCreatedLast ==
    lastCall.op = "loadLatestCheckpoint" =>
      LET stored == CheckpointsOf(checkpoints, lastCall.sessionId) IN
      /\ lastCall.outcome = "ok"
      /\ stored = {} => lastCall.ret = {}
      /\ stored # {} =>
           \E latest \in lastCall.ret :
             /\ latest \in stored
             /\ \A c \in stored : c.createdAt <= latest.createdAt

\* C13: after cleanupCheckpoints(sessionId, keepCount) completes on a session
\* with n checkpoints, min(n, keepCount) checkpoints remain, none of them
\* created before a deleted one; the backups of the deleted ones are gone and
\* every remaining checkpoint restores to what it restored to before.
C13_CleanupKeepsMostRecent ==
    [][\A sid \in SessionIdInputs, keepCount \in KeepCounts :
         \A list \in listCheckpoints(checkpoints, sid) :
           ( /\ lastCall'.op = "cleanupCheckpoints"
             /\ lastCall'.outcome = "ok"
             /\ CleanupCall(sid, keepCount, list) ) =>
             LET before == CheckpointsOf(checkpoints, sid)
                 after == CheckpointsOf(checkpoints', sid)
                 n == Cardinality(before) IN
             /\ after \subseteq before
             /\ Cardinality(after) = IF n < keepCount THEN n ELSE keepCount
             /\ \A kept \in after, gone \in before \ after :
                  kept.createdAt >= gone.createdAt
             /\ \A gone \in before \ after : gone.backupPath \notin DOMAIN backups'
             /\ \A kept \in after :
                  /\ kept.backupPath \in DOMAIN backups'
                  /\ restoreSession(backups', kept) = restoreSession(backups, kept)]_vars

\* C14: when a store call of createCheckpoint fails, createCheckpoint fails and
\* listCheckpoints and loadLatestCheckpoint return what they returned before,
\* nothing of that call; a descriptor is only ever written under a fresh id,
\* and every checkpoint the two return has its backup record in the store.
C14_NoHalfWrittenCheckpoint ==
    [][/\ \A session \in Range(sessions) \cup Range(backups), reason \in CheckpointReasons,
           id \in UUIDs, fail \in 1..3 :
           ( /\ lastCall'.op = "createCheckpoint"
             /\ CheckpointCall(session, reason, id, fail) ) =>
             /\ lastCall'.outcome # "ok"
             /\ listCheckpoints(checkpoints', session.id) = listCheckpoints(checkpoints, session.id)
             /\ loadLatestCheckpoint(checkpoints', session.id)
                  = loadLatestCheckpoint(checkpoints, session.id)
             /\ \A c \in CheckpointsOf(checkpoints', session.id) : c.id # id
       /\ \A k \in DOMAIN checkpoints' \ DOMAIN checkpoints : k[2] \notin usedUUIDs
       /\ \A sid \in DOMAIN sessions' :
            /\ \A list \in listCheckpoints(checkpoints', sid) :
                 \A i \in 1..Len(list) : list[i].backupPath \in DOMAIN backups'
            /\ \A c \in loadLatestCheckpoint(checkpoints', sid) :
                 c.backupPath \in DOMAIN backups']_vars

C14_Witness ==
    /\ lastCall.op = "createCheckpoint"
    /\ lastCall.outcome = StoreError
    /\ lastCall.ret.checkpoint.backupPath \in DOMAIN backups
    /\ CheckpointsOf(checkpoints, lastCall.sessionId) # {}
    /\ \A c \in CheckpointsOf(checkpoints, lastCall.sessionId) :
         c.id # lastCall.ret.checkpoint.id

\* the submitAnswer calls made on a session
CallsOn(sessionId) == {c \in DOMAIN calls : calls[c].session.id = sessionId}

\* the ids of the responses the submitAnswer calls on a session created
AcceptedIds(sessionId) == {calls[c].response.id : c \in CallsOn(sessionId)}

\* C15: n >= 2 submitAnswer calls on one session, all finished: every Response
\* is persisted; if no call overlapped another, the cursor has risen by n and
\* responseIds holds the n ids; overlapping calls can leave the cursor short
\* of n, and then progress counts fewer answers than were accepted.
C15_LostUpdateOnlyWhenInterleaved ==
    \A sid \in DOMAIN sessions :
      LET n == Cardinality(CallsOn(sid))
          session == sessions[sid] IN
      (InFlight = {} /\ n >= 2) =>
        /\ AcceptedIds(sid) \subseteq DOMAIN responses
        /\ Cardinality(AcceptedIds(sid)) = n
        /\ session.currentQuestionIndex \in 1..n
        /\ (\A c \in CallsOn(sid) : ~calls[c].overlapped) =>
             /\ session.currentQuestionIndex = n
             /\ Range(session.responseIds) = AcceptedIds(sid)
             /\ Len(session.responseIds) = n
        /\ session.currentQuestionIndex < n =>
             /\ \E c \in CallsOn(sid) : calls[c].overlapped
             /\ session.progress = RoundPercent(session.currentQuestionIndex, MockTotal)
             /\ session.progress < RoundPercent(n, MockTotal)

C15_Witness ==
    /\ InFlight = {}
    /\ \E sid \in DOMAIN sessions :
         /\ Cardinality(CallsOn(sid)) = 2
         /\ AcceptedIds(sid) \subseteq DOMAIN responses
         /\ Cardinality(AcceptedIds(sid)) = 2
         /\ sessions[sid].currentQuestionIndex = 1
         /\ Len(sessions[sid].responseIds) = 1
         /\ sessions[sid].progress = RoundPercent(1, MockTotal)

\* C16: when a store call fails partway through submitAnswer, submitAnswer
\* fails and the store is as before: no Response record is added and the
\* session's responseIds, currentQuestionIndex and progress are unchanged.
C16_FailedSubmitLeavesStoreAsBefore ==
    [][\A sid \in DOMAIN sessions, request \in SubmitRequests, fail \in 1..3 :
         ( /\ lastCall'.op = "submitAnswer"
           /\ request.questionId # ""
           /\ SubmitCall(sid, request, fail) ) =>
           /\ lastCall'.outcome # "ok"
           /\ responses' = responses
           /\ sessions'[sid].responseIds = sessions[sid].responseIds
           /\ sessions'[sid].currentQuestionIndex = sessions[sid].currentQuestionIndex
           /\ sessions'[sid].progress = sessions[sid].progress]_vars

\* C17: startSession succeeds only from not_started (and, the store working,
\* always from it) and then stores the status in_progress; from in_progress,
\* paused, completed or abandoned it fails and the store is unchanged.
C17_StartOnlyFromNotStarted ==
    [][\A sid \in DOMAIN sessions, fail \in 0..1 :
         ( /\ lastCall'.op = "startSession"
           /\ Apply("startSession", sid, startSession(sid, fail)) ) =>
           LET status == sessions[sid].status IN
           /\ lastCall'.outcome = "ok" =>
                /\ status = "not_started"
                /\ sessions'[sid].status = "in_progress"
           /\ (status = "not_started" /\ fail = 0) => lastCall'.outcome = "ok"
           /\ status # "not_started" =>
                /\ lastCall'.outcome # "ok"
                /\ sessions' = sessions]_vars

C17_Witness ==
    /\ lastCall.op = "startSession"
    /\ lastCall.outcome = "ok"
    /\ sessions[lastCall.sessionId].status = "in_progress"

\* C18: resumeSession succeeds only from paused (and, the store working, always
\* from it), stores in_progress and reports the number of responses of the
\* session; not paused: it fails and the session is unchanged; a well-formed id
\* without a session: not found; a malformed id: invalid format.
C18_ResumeOnlyFromPaused ==
    [][\A sid \in SessionIdInputs \cup {MalformedSessionId}, fail \in 0..1 :
         ( /\ lastCall'.op = "resumeSession"
           /\ Apply("resumeSession", sid, resumeSession(sid, fail)) ) =>
           /\ ~isValidSessionId(sid) =>
                /\ lastCall'.outcome = "Invalid sessionId format"
                /\ sessions' = sessions
           /\ (isValidSessionId(sid) /\ sid \notin DOMAIN sessions) =>
                /\ lastCall'.outcome = "Session not found"
                /\ sessions' = sessions
           /\ sid \in DOMAIN sessions =>
                LET status == sessions[sid].status IN
                /\ lastCall'.outcome = "ok" =>
                     /\ status = "paused"
                     /\ sessions'[sid].status = "in_progress"
                     /\ lastCall'.ret.answered = Len(sessions'[sid].responseIds)
                     /\ sessions'[sid].responseIds = sessions[sid].responseIds
                /\ (status = "paused" /\ fail = 0) => lastCall'.outcome = "ok"
                /\ status # "paused" =>
                     /\ lastCall'.outcome = "Session is not paused"
                     /\ sessions' = sessions]_vars

C18_Witness ==
    /\ lastCall.op = "resumeSession"
    /\ lastCall.outcome = "ok"
    /\ lastCall.ret.answered > 0
    /\ sessions[lastCall.sessionId].status = "in_progress"

\* C19: abandonSession on a not_started, in_progress or paused session (the
\* store working) stores the status abandoned and keeps the session with the
\* same responseIds and every Response; on an abandoned session it fails as
\* already abandoned and changes nothing.
C19_AbandonKeepsData ==
    [][\A sid \in DOMAIN sessions, fail \in 0..1 :
         ( /\ lastCall'.op = "abandonSession"
           /\ Apply("abandonSession", sid, abandonSession(sid, fail)) ) =>
           LET status == sessions[sid].status IN
           /\ (status \in {"not_started", "in_progress", "paused"} /\ fail = 0) =>
                /\ lastCall'.outcome = "ok"
                /\ sessions'[sid].status = "abandoned"
                /\ sessions'[sid].responseIds = sessions[sid].responseIds
                /\ responses' = responses
           /\ status = "abandoned" =>
                /\ lastCall'.outcome = "Session is already abandoned"
                /\ sessions' = sessions
                /\ responses' = responses]_vars

C19_Witness ==
    /\ lastCall.op = "abandonSession"
    /\ lastCall.outcome = "Session is already abandoned"
    /\ sessions[lastCall.sessionId].status = "abandoned"
    /\ Len(sessions[lastCall.sessionId].responseIds) > 0
    /\ Range(sessions[lastCall.sessionId].responseIds) \subseteq DOMAIN responses

\* C20: completeSession succeeds only from in_progress (and, the store working,
\* always from it) and then stores status completed, progress 100 and a
\* completedAt that is not null; from any other status it fails and the
\* stored session is unchanged.
C20_CompleteOnlyFromInProgress ==
    [][\A sid \in DOMAIN sessions, fail \in 0..1 :
         ( /\ lastCall'.op = "completeSession"
           /\ Apply("completeSession", sid, completeSession(sid, fail)) ) =>
           LET status == sessions[sid].status IN
           /\ lastCall'.outcome = "ok" =>
                /\ status = "in_progress"
                /\ sessions'[sid].status = "completed"
                /\ sessions'[sid].progress = 100
                /\ sessions'[sid].completedAt # Null
           /\ (status = "in_progress" /\ fail = 0) => lastCall'.outcome = "ok"
           /\ status # "in_progress" =>
                /\ lastCall'.outcome # "ok"
                /\ sessions' = sessions]_vars

C20_Witness ==
    /\ lastCall.op = "completeSession"
    /\ lastCall.outcome = "ok"
    /\ sessions[lastCall.sessionId].status = "completed"
    /\ sessions[lastCall.sessionId].progress = 100
    /\ sessions[lastCall.sessionId].currentQuestionIndex = 1

\* a version-4 UUID (RFC 4122: version digit 4, variant 10xx)
IsVersion4Uuid(text) ==
    text.present /\ text.hex /\ text.version = 4 /\ text.variant \in 8..11

C22_NextQuestionRefusals ==
    [][\A sid \in SessionIdInputs :
         ( /\ lastCall'.op = "getNextQuestion"
           /\ NextQuestionCall(sid) ) =>
           /\ sid \notin DOMAIN sessions => lastCall'.outcome = "Session not found"
           /\ (sid \in DOMAIN sessions /\ sessions[sid].status \in {"paused", "abandoned"})
                => lastCall'.outcome \in {"Session is paused", "Session is abandoned"}
           /\ lastCall'.outcome = "ok" =>
                /\ sid \in DOMAIN sessions
                /\ sessions[sid].status \notin {"paused", "abandoned"}]_vars

\* the Response records stored for a session: its accepted answers
AnswersOf(sessionId) == {k \in DOMAIN responses : responses[k].sessionId = sessionId}

C24_CursorCountsAnswers ==
    [][\A sid \in DOMAIN sessions :
         ( /\ lastCall'.op = "getNextQuestion"
           /\ lastCall'.outcome = "ok"
           /\ NextQuestionCall(sid) ) =>
           LET k == Cardinality(AnswersOf(sid))
               session == sessions'[sid] IN
           /\ k < session.totalQuestions
           /\ lastCall'.ret.progress.current = k
           /\ session.currentQuestionIndex = k
           /\ Len(session.responseIds) = k
           /\ Range(session.responseIds) = AnswersOf(sid)]_vars

C24_Witness ==
    /\ lastCall.op = "getNextQuestion"
    /\ lastCall.outcome = "ok"
    /\ lastCall.ret.progress.current = 3
    /\ Cardinality(AnswersOf(lastCall.sessionId)) = 3
    /\ sessions[lastCall.sessionId].currentQuestionIndex = 3

\* C25: in every reachable state the progress of every session is within
\* 0..100, and a percentComplete returned by getNextQuestion is within 0..100
\* and equals round(current / total * 100).
C25_ProgressIsAPercentage ==
    /\ \A sid \in DOMAIN sessions :
         0 <= sessions[sid].progress /\ sessions[sid].progress <= 100
    /\ (lastCall.op = "getNextQuestion" /\ lastCall.outcome = "ok") =>
         LET progress == lastCall.ret.progress IN
         /\ 0 <= progress.percentComplete /\ progress.percentComplete <= 100
         /\ progress.percentComplete = RoundPercent(progress.current, progress.total)

\* C26: startFreierTalk fails on a paused or abandoned session and fails with
\* 'Session not found' for an id without a session; after such a failure no
\* entry has been stored and no session's freierTalkIds has changed.
C26_StartTalkRefusals ==
    [][\A sid \in SessionIdInputs, request \in StartFreierTalkRequests :
         ( /\ lastCall'.op = "startFreierTalk"
           /\ StartTalkCall(sid, request, 0) ) =>
           /\ sid \notin DOMAIN sessions => lastCall'.outcome = "Session not found"
           /\ (sid \in DOMAIN sessions /\ sessions[sid].status = "paused")
                => lastCall'.outcome = "Session is paused"
           /\ (sid \in DOMAIN sessions /\ sessions[sid].status = "abandoned")
                => lastCall'.outcome = "Session is abandoned"
           /\ lastCall'.outcome # "ok" =>
                /\ freierTalk' = freierTalk
                /\ DOMAIN sessions' = DOMAIN sessions
                /\ \A s \in DOMAIN sessions :
                     sessions'[s].freierTalkIds = sessions[s].freierTalkIds]_vars

\* C27: endFreierTalk succeeds only on an entry whose endedAt is null and then
\* sets endedAt and duration; on an ended entry it fails with 'Freier Talk
\* already ended', on an unknown entry id with 'Freier Talk entry not found',
\* and a failed call leaves endedAt, duration and transcript of the entry as
\* they were.
C27_EndOnlyOnce ==
    [][\A sid \in SessionIdInputs, id \in 1..MaxFreierTalks, fail \in 0..2 :
         ( /\ lastCall'.op = "endFreierTalk"
           /\ EndTalkCall(sid, id, fail) ) =>
           LET known == hasFreierTalkEntry(sid, id) IN
           /\ ~known => lastCall'.outcome = "Freier Talk entry not found"
           /\ (known /\ freierTalk[id].endedAt # Null)
                => lastCall'.outcome = "Freier Talk already ended"
           /\ lastCall'.outcome = "ok" =>
                /\ known
                /\ freierTalk[id].endedAt = Null
                /\ freierTalk'[id].endedAt = now
                /\ freierTalk'[id].duration = now - freierTalk[id].startedAt
           /\ (lastCall'.outcome # "ok" /\ id \in DOMAIN freierTalk) =>
                /\ freierTalk'[id].endedAt = freierTalk[id].endedAt
                /\ freierTalk'[id].duration = freierTalk[id].duration
                /\ freierTalk'[id].transcript = freierTalk[id].transcript]_vars

\* the turns addFreierTalkMessage has put on a transcript
AddedTurns(transcript) == SelectSeq(transcript, LAMBDA turn : turn \in
                            {[role |-> m.role, message |-> m.message, timestamp |-> ts] :
                               m \in Messages, ts \in 0..MaxTime})

\* C28: when endFreierTalk closes an entry to which exactly two messages were
\* added after its start, one by the user and then one by the ai, the stored
\* entry has at least 3 turns, a non-null endedAt and a duration above 0.
C28_ScenarioD ==
    [][\A sid \in DOMAIN sessions, id \in DOMAIN freierTalk :
         ( /\ lastCall'.op = "endFreierTalk"
           /\ lastCall'.outcome = "ok"
           /\ EndTalkCall(sid, id, 0)
           /\ Len(AddedTurns(freierTalk[id].transcript)) = 2
           /\ AddedTurns(freierTalk[id].transcript)[1].role = "user"
           /\ AddedTurns(freierTalk[id].transcript)[2].role = "ai" ) =>
           /\ Len(freierTalk'[id].transcript) >= 3
           /\ freierTalk'[id].endedAt # Null
           /\ freierTalk'[id].duration > 0]_vars

\* s is an initial segment of t
IsPrefix(s, t) == Len(s) <= Len(t) /\ SubSeq(t, 1, Len(s)) = s

\* C29: every step keeps every stored entry and its transcript as a prefix of
\* the new one, and a successful addFreierTalkMessage makes the transcript the
\* old one with the one new turn appended.
C29_TranscriptAppendOnly ==
    [][/\ \A k \in DOMAIN freierTalk :
            /\ k \in DOMAIN freierTalk'
            /\ IsPrefix(freierTalk[k].transcript, freierTalk'[k].transcript)
       /\ \A sid \in DOMAIN sessions, id \in DOMAIN freierTalk, message \in Messages,
             fail \in 0..2 :
            ( /\ lastCall'.op = "addFreierTalkMessage"
              /\ lastCall'.outcome = "ok"
              /\ AddTalkCall(sid, id, message, fail) ) =>
              freierTalk'[id].transcript =
                  Append(freierTalk[id].transcript,
                         [role |-> message.role, message |-> message.message,
                          timestamp |-> now])]_vars

C29_Witness ==
    /\ lastCall.op = "addFreierTalkMessage"
    /\ lastCall.outcome = "ok"
    /\ \E k \in DOMAIN freierTalk :
         /\ Len(freierTalk[k].transcript) = 2
         /\ freierTalk[k].transcript[1].message = "Different topic"
         /\ freierTalk[k].transcript[2].message = "more"

\* the ids of the entries stored for a session
TalkIdsOf(store_, sessionId) == {k \in DOMAIN store_ : store_[k].sessionId = sessionId}

\* C30: a successful startFreierTalk appends the new entry's id, not there
\* before, to the session's freierTalkIds once; addFreierTalkMessage and
\* endFreierTalk leave every freierTalkIds as it was; and freierTalkIds always
\* holds, without repetition, the ids of the entries started for the session.
C30_OneIdPerStart ==
    [][/\ \A sid \in DOMAIN sessions, request \in StartFreierTalkRequests :
            ( /\ lastCall'.op = "startFreierTalk"
              /\ lastCall'.outcome = "ok"
              /\ StartTalkCall(sid, request, 0) ) =>
              LET id == lastCall'.ret.freierTalkId IN
              /\ ~includes(sessions[sid].freierTalkIds, id)
              /\ sessions'[sid].freierTalkIds = Append(sessions[sid].freierTalkIds, id)
       /\ lastCall'.op \in {"addFreierTalkMessage", "endFreierTalk"} =>
            /\ DOMAIN sessions' = DOMAIN sessions
            /\ \A s \in DOMAIN sessions :
                 sessions'[s].freierTalkIds = sessions[s].freierTalkIds
       /\ \A s \in DOMAIN sessions' :
            LET ids == sessions'[s].freierTalkIds IN
            /\ Cardinality(Range(ids)) = Len(ids)
            /\ Range(ids) = TalkIdsOf(freierTalk', s)]_vars

C30_Witness ==
    /\ lastCall.op = "startFreierTalk"
    /\ lastCall.outcome = "ok"
    /\ Len(sessions[lastCall.sessionId].freierTalkIds) = 2
    /\ Cardinality(TalkIdsOf(freierTalk, lastCall.sessionId)) = 2

\* C31: listCheckpoints(sessionId) resolves with the descriptors stored for
\* that session, each once and no other, a later createdAt before an earlier
\* one, and with the empty list when the session has no checkpoint.
C31_ListIsTheSessionsCheckpoints ==
    [][\A sid \in ListedIds :
         \A list \in listCheckpoints(checkpoints, sid) :
           (lastCall'.op = "listCheckpoints" /\ ListCall(sid, list)) =>
             LET stored == {checkpoints[k] : k \in {j \in DOMAIN checkpoints : j[1] = sid}}
                 returned == lastCall'.ret IN
             /\ Range(returned) = stored
             /\ Len(returned) = Cardinality(stored)
             /\ \A i \in 1..Len(returned) : returned[i].sessionId = sid
             /\ \A i \in 1..(Len(returned) - 1) :
                  returned[i].createdAt >= returned[i + 1].createdAt
             /\ stored = {} => returned = <<>>]_vars

C31_Witness ==
    /\ lastCall.op = "listCheckpoints"
    /\ Len(lastCall.ret) = 2
    /\ lastCall.ret[1].createdAt > lastCall.ret[2].createdAt
    /\ lastCall.ret[1].sessionId = lastCall.sessionId

\* C32: on a required question an answer that is null, undefined or the
\* empty string gives valid = false with the one error 'Answer is required'
\* and no error of a type, range or membership rule.
C32_RequiredShortCircuits ==
    ( /\ Returned("validateAnswer")
      /\ lastCall.ret.question.required
      /\ \/ lastCall.ret.answer.type \in {"null", "undefined"}
         \/ lastCall.ret.answer.type = "string" /\ lastCall.ret.answer.text = "" ) =>
      /\ lastCall.outcome = "ok"
      /\ lastCall.ret.valid = FALSE
      /\ lastCall.ret.errors = <<Error("Answer is required", <<>>)>>

C32_Witness ==
    /\ Returned("validateAnswer")
    /\ lastCall.ret.question.required
    /\ lastCall.ret.question.type = "single_choice"
    /\ lastCall.ret.question.options # {}
    /\ lastCall.ret.answer = StringAnswer("")
    /\ Len(lastCall.ret.errors) = 1

\* C33: for a scale question with bounds min and max, an answer of type
\* number is accepted exactly when min <= answer <= max, and a number outside
\* the bounds gets the one error that names both: 'between min and max'.
C33_ScaleBoundsInclusive ==
    ( /\ Returned("validateAnswer")
      /\ lastCall.ret.question.type = "scale"
      /\ lastCall.ret.question.scale # {}
      /\ typeofAnswer(lastCall.ret.answer) = "number" ) =>
      LET answer == lastCall.ret.answer
          scale == CHOOSE s \in lastCall.ret.question.scale : TRUE
          within == /\ answer.type = "number"
                    /\ scale.min <= answer.num
                    /\ answer.num <= scale.max IN
      /\ lastCall.outcome = "ok"
      /\ lastCall.ret.valid <=> within
      /\ (answer.type = "number" /\ ~within) =>
           lastCall.ret.errors =
             <<Error("Answer must be between ${min} and ${max}", <<scale.min, scale.max>>)>>

\* the errors of the rules of its type that an answer violates: the expected
\* runtime type, the length limits of a text, membership in the options, the
\* bounds of a scale
ViolatedRules(answer, question) ==
    LET expected == IF question.type \in {"text", "single_choice"} THEN "string"
                    ELSE IF question.type = "multiple_choice" THEN "array"
                    ELSE "number" IN
    (IF (IF expected = "array" THEN answer.type ELSE typeofAnswer(answer)) # expected
       THEN {Error("Answer type mismatch", <<>>)} ELSE {})
    \cup {Error("Answer must be at least ${minLength} characters", <<m>>) :
            m \in {k \in question.minLength :
                     /\ question.type = "text"
                     /\ answer.type = "string"
                     /\ Len(answer.text) < k}}
    \cup {Error("Answer must be at most ${maxLength} characters", <<m>>) :
            m \in {k \in question.maxLength :
                     /\ question.type = "text"
                     /\ answer.type = "string"
                     /\ Len(answer.text) > k}}
    \cup {Error("Answer must be one of the provided options", <<>>) :
            o \in {options \in question.options :
                     /\ question.type = "single_choice"
                     /\ ~(answer.type = "string" /\ answer.text \in options)}}
    \cup {Error("All answers must be from provided options", <<>>) :
            o \in {options \in question.options :
                     /\ question.type = "multiple_choice"
                     /\ answer.type = "array"
                     /\ Range(answer.items) \ options # {}}}
    \cup {Error("Answer must be between ${min} and ${max}", <<s.min, s.max>>) :
            s \in {scale \in question.scale :
                     /\ question.type = "scale"
                     /\ answer.type = "number"
                     /\ (answer.num < scale.min \/ answer.num > scale.max)}}

\* C34: for an answer the required rule does not stop, validateAnswer returns
\* a result whose errors include the error of every rule the answer violates,
\* and whose valid is true exactly when the error list is empty.
C34_EveryViolationReported ==
    ( /\ Returned("validateAnswer")
      /\ ~(lastCall.ret.question.required /\ isMissing(lastCall.ret.answer)) ) =>
      /\ lastCall.outcome = "ok"
      /\ ViolatedRules(lastCall.ret.answer, lastCall.ret.question)
           \subseteq Range(lastCall.ret.errors)
      /\ lastCall.ret.valid <=> lastCall.ret.errors = <<>>

\* C35: detectFollowUpTrigger returns the follow-up of the first rule, in
\* declared order, whose condition the answer satisfies, whatever the later
\* rules are, and returns not triggered when no rule's condition is satisfied.
C35_FirstSatisfiedRuleWins ==
    Returned("detectFollowUpTrigger") =>
      LET rules == lastCall.ret.rules
          satisfied == {i \in DOMAIN rules : triggeredBy(rules[i], lastCall.ret.answer)} IN
      IF satisfied = {} THEN ~lastCall.ret.triggered
      ELSE LET first == CHOOSE i \in satisfied : \A j \in satisfied : i <= j IN
        /\ lastCall.ret.triggered
        /\ lastCall.ret.reason = rules[first].condition
        /\ lastCall.ret.followUpQuestion = rules[first].followUpQuestion

\* the frustration keywords that occur in an answer, whatever its case
Matches(answer) ==
    {kw \in frustratedKeywords :
       \E i \in 1..Len(answer) : i + Len(kw) - 1 <= Len(answer) /\
          \A j \in 1..Len(kw) : toLowerCase(answer)[i + j - 1] = kw[j]}

C37_LifecycleFrame ==
    [][lastCall'.op \in {"startSession", "pauseSession", "resumeSession", "abandonSession"} =>
         /\ DOMAIN sessions' = DOMAIN sessions
         /\ \A sid \in DOMAIN sessions :
              /\ sid # lastCall'.sessionId => sessions'[sid] = sessions[sid]
              /\ \A field \in DOMAIN sessions[sid] \ {"status", "updatedAt"} :
                   sessions'[sid][field] = sessions[sid][field]]_vars

C37_Witness ==
    /\ lastCall.op = "resumeSession"
    /\ lastCall.outcome = "ok"
    /\ sessions[lastCall.sessionId].status = "in_progress"
    /\ sessions[lastCall.sessionId].currentQuestionIndex > 0
    /\ Len(sessions[lastCall.sessionId].responseIds) > 0

\* C38: getNextQuestion returns the question at the session's cursor in its
\* catalog ordering, a function of the stored session alone: two successful
\* calls for the same session, with no change of the session between them,
\* return the same question.
C38_SameCursorSameQuestion ==
    [][( /\ lastCall.op = "getNextQuestion" /\ lastCall.outcome = "ok"
         /\ lastCall'.op = "getNextQuestion" /\ lastCall'.outcome = "ok"
         /\ lastCall'.sessionId = lastCall.sessionId
         /\ sessions' = sessions ) =>
           lastCall'.ret.question = lastCall.ret.question]_vars

\* C39: the checkpoint pauseSession writes is of the session as stored just
\* before the call: its snapshot carries that session's currentQuestionIndex,
\* progress, number of responses and number of freier-talk entries, and
\* restoreSession on it right after the call returns that very session, whose
\* status is not_started or in_progress and never paused.
C39_PauseCheckpointIsPrePause ==
    [][\A sid \in DOMAIN sessions, id \in UUIDs, fail \in 0..4 :
         (lastCall'.op = "pauseSession" /\ PauseCall(sid, id, fail)) =>
           \A k \in DOMAIN checkpoints' \ DOMAIN checkpoints :
             LET cp == checkpoints'[k]
                 session == sessions[sid] IN
             /\ cp.sessionId = sid
             /\ cp.reason = "auto_save"
             /\ cp.sessionSnapshot.currentQuestionIndex = session.currentQuestionIndex
             /\ cp.sessionSnapshot.progress = session.progress
             /\ cp.sessionSnapshot.responseCount = Len(session.responseIds)
             /\ cp.sessionSnapshot.freierTalkCount = Len(session.freierTalkIds)
             /\ restoreSession(backups', cp) = session
             /\ restoreSession(backups', cp).status \in {"not_started", "in_progress"}]_vars

C39_Witness ==
    /\ lastCall.op = "pauseSession" /\ lastCall.outcome = "ok"
    /\ sessions[lastCall.sessionId].status = "paused"
    /\ \E k \in DOMAIN checkpoints :
         /\ checkpoints[k].sessionId = lastCall.sessionId
         /\ checkpoints[k].createdAt = now
         /\ checkpoints[k].sessionSnapshot.responseCount > 0
         /\ restoreSession(backups, checkpoints[k]).status = "in_progress"

\* C40: getNextQuestion, whether it returns a question or fails, writes
\* nothing: every stored session (status, currentQuestionIndex, progress,
\* responseIds, freierTalkIds and all other fields) is the same after the call
\* as before, and so are the responses, freier-talk entries and checkpoints.
C40_NextQuestionReadsOnly ==
    [][lastCall'.op = "getNextQuestion" =>
         /\ sessions' = sessions
         /\ responses' = responses
         /\ freierTalk' = freierTalk
         /\ checkpoints' = checkpoints
         /\ backups' = backups]_vars

C40_Witness ==
    /\ lastCall.op = "getNextQuestion" /\ lastCall.outcome = "ok"
    /\ sessions[lastCall.sessionId].status = "not_started"
    /\ \E sid \in DOMAIN sessions :
         /\ sessions[sid].currentQuestionIndex > 0
         /\ Len(sessions[sid].responseIds) > 0

====
